---- MODULE Spec2Model ----
(***************************************************************************)
(* A model of controltowerlib's control-plane synchronisation layer:       *)
(* the availability gate (validate_availability, is_deployed, busy), the   *)
(* request builder (_get_api_payload), the paginated result stream         *)
(* (_get_paginated_results), the retried account creation                  *)
(* (create_account), the organizational-unit workflows and the account     *)
(* objects (ControlTowerAccount: lazy tiers, _refresh, update, delete).    *)
(*                                                                         *)
(* Python code is translated in "execution context" style: every method    *)
(* is an operator from a context x to a context.  x carries the instance   *)
(* fields (x.ct), the module-level lru_cache of _get_status (x.cache), the *)
(* remote services' state (x.env), the events of the running operation     *)
(* (x.trace), the number of backing-service calls issued so far (x.n), the *)
(* calls the transport fails (x.fails), the raised exception (x.err), the  *)
(* value returned by the last method (x.ret) and the fields of the         *)
(* ControlTowerAccount instance at hand (x.acct).                          *)
(***************************************************************************)
EXTENDS Integers, Sequences, FiniteSets, TLC

VARIABLES
    env,      \* the remote services: landing zone, catalog, directory, control plane
    ct,       \* the fields of the ControlTower instance
    cache,    \* the lru_cache of ControlTower._get_status (module level)
    op,       \* the operation the caller ran last
    trace,    \* the events of that operation, in order
    result,   \* what it returned or raised
    retry,    \* the state of the retry decorator around create_account
    stream,   \* the generator returned by _get_paginated_results
    account,  \* the fields of a ControlTowerAccount instance and where its delete() is
    callers   \* callers with a ControlTower instance each, and where their call is

vars == <<env, ct, cache, op, trace, result, retry, stream, account, callers>>

----------------------------------------------------------------------------
(* Bounds of the model.                                                    *)

NumAccounts == 1
MaxFails == 2
MaxPages == 3
MaxItems == 2
MinCallSeconds == 1
NumCallers == 2
NumInstances == 3

(* Program constants.                                                      *)

max_calls_total == 7
retry_window_after_first_call_in_seconds == 60
settling_time == 60
lru_maxsize == 2

----------------------------------------------------------------------------
(* Python values.                                                          *)

None == "None"
NoErr == "no exception"

AccountIds == 1..NumAccounts

supported_targets ==
    {"listManagedOrganizationalUnits", "manageOrganizationalUnit",
     "deregisterOrganizationalUnit", "listManagedAccounts",
     "getGuardrailComplianceStatus", "describeManagedOrganizationalUnit",
     "listGuardrailsForTarget", "getAvailableUpdates", "describeCoreService",
     "getAccountInfo", "listEnabledGuardrails", "listGuardrails",
     "listOrganizationalUnitsForParent", "listDriftDetails",
     "getLandingZoneStatus", "setupLandingZone", "getHomeRegion",
     "listGuardrailViolations", "getCatastrophicDrift",
     "describeAccountFactoryConfig", "performPreLaunchChecks"}

LandingZoneStatuses == {"NOT_STARTED", "IN_PROGRESS", "COMPLETED"}

CallerRegion == "caller-region"
HomeRegion == "home-region"

----------------------------------------------------------------------------
(* Execution contexts.  An event is <<kind, what, site>>.                  *)

(* A catalog record or a workflow record as an account instance holds it:  *)
(* not resolved yet (None), resolved and empty ({}), or a record.          *)
unresolved ==
    [resolved |-> "None", Id |-> "None", Status |-> "None", LastRecordId |-> "None"]

empty_record == [unresolved EXCEPT !.resolved = "{}"]

(* ControlTowerAccount.__init__: tier 1 is the data handed in, tiers 2 and *)
(* 3 are None.  pc and suspended_ou are where delete() is and its local    *)
(* variable.                                                               *)
ControlTowerAccount_init(data) ==
    [data |-> data, service_catalog_data |-> unresolved, record_data |-> unresolved,
     pc |-> "idle", suspended_ou |-> "None"]

(* A version is the text of a decimal number, held as its digits: <<3, 1>> *)
(* is "3.1", <<3, 1, 0>> is "3.10" and <<>> is an absent value (None).     *)
no_data == [AccountId |-> 0, DeployedLandingZoneVersion |-> <<>>,
            ParentOrganizationalUnitId |-> "None"]

no_account == ControlTowerAccount_init(no_data)

Ctx(fails) ==
    [ct |-> ct, cache |-> cache, env |-> env, trace |-> <<>>, n |-> 0,
     fails |-> fails, err |-> NoErr, ret |-> None, acct |-> account]

Ev(x, kind, what, site) == [x EXCEPT !.trace = Append(@, <<kind, what, site>>)]

Raise(x, exception) == [x EXCEPT !.err = exception, !.ret = None]

Return(x, value) == [x EXCEPT !.ret = value]

Failed(x) == x.err # NoErr

(* self.session.post(url, json=payload): the n-th backing-service call of  *)
(* the operation; response.ok is false iff the transport fails that call,  *)
(* which the event <<"response", "not ok", site>> records.                 *)
session_post(x, target, site) ==
    IF Failed(x) THEN x
    ELSE [x EXCEPT !.trace = IF (x.n + 1) \in x.fails
                             THEN @ \o <<<<"session.post", target, site>>,
                                         <<"response", "not ok", site>>>>
                             ELSE Append(@, <<"session.post", target, site>>),
                   !.n = @ + 1,
                   !.ret = IF (x.n + 1) \in x.fails THEN "not ok" ELSE "ok"]

(* A boto3 client call (servicecatalog, organizations): a transport        *)
(* failure raises botocore's ClientError.                                  *)
client_call(x, client, method, site) ==
    IF Failed(x) THEN x
    ELSE [x EXCEPT !.trace = Append(@, <<client, method, site>>),
                   !.n = @ + 1,
                   !.err = IF (x.n + 1) \in x.fails THEN "ClientError" ELSE NoErr,
                   !.ret = IF (x.n + 1) \in x.fails THEN None ELSE "ok"]

NetworkKinds == {"session.post", "servicecatalog", "organizations"}

(* The backing-service calls among the events of a trace, in order.        *)
NetworkCalls(t) == SelectSeq(t, LAMBDA e : e[1] \in NetworkKinds)

Count(t, kind, what, site) ==
    Len(SelectSeq(t, LAMBDA e : e = <<kind, what, site>>))

CountKind(t, kind) == Len(SelectSeq(t, LAMBDA e : e[1] = kind))

Has(t, kind, what, site) == \E i \in 1..Len(t) : t[i] = <<kind, what, site>>

HasKind(t, kind) == \E i \in 1..Len(t) : t[i][1] = kind

----------------------------------------------------------------------------
(* The request builder and the availability gate.                          *)

(* A method is translated statement by statement: the operator named after *)
(* it runs its first statement and hands the context to the operator of    *)
(* the statements that follow (named method_step).                         *)
RECURSIVE is_deployed(_), region(_), _get_api_payload(_, _, _)

_validate_target(x, target) ==
    IF Failed(x) THEN x
    ELSE IF target \notin supported_targets THEN Raise(x, "UnsupportedTarget")
    ELSE Return(x, target)

is_deployed_memoise(r, deployed) ==
    Return([r EXCEPT !.trace = Append(@, <<"is_deployed", deployed, "queried">>),
                     !.ct.is_deployed = deployed], deployed)

is_deployed_response(r) ==
    IF Failed(r) THEN r
    ELSE IF r.ret = "not ok" THEN Raise(r, "ServiceCallFailed")
    ELSE is_deployed_memoise(r, IF r.env.lz # "NOT_STARTED" THEN "True" ELSE "False")

(* ControlTower.is_deployed: `if not self._is_deployed` queries again when *)
(* the memo is None and when it is False.                                  *)
is_deployed(x) ==
    IF Failed(x) THEN x
    ELSE IF x.ct.is_deployed # "True"
    THEN is_deployed_response(
             session_post(_get_api_payload(x, "getLandingZoneStatus", CallerRegion),
                          "getLandingZoneStatus", "is_deployed"))
    ELSE Return(Ev(x, "is_deployed", x.ct.is_deployed, "memo"), x.ct.is_deployed)

region_response(r) ==
    IF Failed(r) THEN r
    ELSE IF r.ret = "not ok" THEN Raise(r, "ServiceCallFailed")
    ELSE Return([r EXCEPT !.ct.region = HomeRegion], HomeRegion)

region_deployed(d) ==
    IF Failed(d) THEN d
    ELSE IF d.ret # "True"
    THEN Return([d EXCEPT !.ct.region = CallerRegion], CallerRegion)
    ELSE IF d.ct.region = None
    THEN region_response(
             session_post(_get_api_payload(d, "getHomeRegion", CallerRegion),
                          "getHomeRegion", "region"))
    ELSE Return(d, d.ct.region)

(* ControlTower.region                                                     *)
region(x) == region_deployed(is_deployed(x))

_get_api_payload_region(v, region_) ==
    IF Failed(v) THEN v
    ELSE IF region_ # None THEN Return(v, region_)
    ELSE region(v)

(* A request builder that fills in the region before it validates.         *)
_get_api_payload_region_first(x, target, region_) ==
    _validate_target(_get_api_payload_region(x, region_), target)

(* ControlTower._get_api_payload: the target is validated first; the       *)
(* payload's 'region' entry is `region or self.region`.                    *)
_get_api_payload(x, target, region_) ==
    _get_api_payload_region(_validate_target(x, target), region_)

(* functools.lru_cache(maxsize=2) around _get_status, keyed by self: a     *)
(* sequence of <<key, value>>, least recently used first.                  *)
lru_lookup(c, key) ==
    IF \E i \in 1..Len(c) : c[i][1] = key
    THEN (CHOOSE i \in 1..Len(c) : c[i][1] = key)
    ELSE 0

lru_touch(c, i) ==
    SubSeq(c, 1, i - 1) \o SubSeq(c, i + 1, Len(c)) \o <<c[i]>>

lru_insert(c, key, value) ==
    IF Len(c) >= lru_maxsize
    THEN Append(Tail(c), <<key, value>>)
    ELSE Append(c, <<key, value>>)

_get_status_memoise(r, snapshot) ==
    Return([r EXCEPT !.cache = lru_insert(@, r.ct.id, snapshot)], snapshot)

_get_status_response(r) ==
    IF Failed(r) THEN r
    ELSE _get_status_memoise(r, IF r.ret = "not ok" THEN None ELSE r.env.lz)

(* A status fetch that the lru_cache does not memoise.                     *)
_get_status_cached_refetching(x, i) ==
    _get_status_response(
        session_post(_get_api_payload(x, "getLandingZoneStatus", None),
                     "getLandingZoneStatus", "_get_status"))

_get_status_cached(x, i) ==
    IF i # 0
    THEN Return([x EXCEPT !.cache = lru_touch(@, i)], x.cache[i][2])
    ELSE _get_status_response(
             session_post(_get_api_payload(x, "getLandingZoneStatus", None),
                          "getLandingZoneStatus", "_get_status"))

(* ControlTower._get_status: the decoded response, {} when the response is *)
(* not ok; whatever is returned is memoised by the lru_cache.  A snapshot  *)
(* is modelled by its 'LandingZoneStatus' entry, {} by None.               *)
_get_status(x) ==
    IF Failed(x) THEN x ELSE _get_status_cached(x, lru_lookup(x.cache, x.ct.id))

(* ControlTower.status                                                     *)
status(x) == _get_status(x)

(* self._get_status().get(key): an entry of the snapshot; {} has none.     *)
Entry(key, snapshot) ==
    IF snapshot = None THEN None ELSE key \o " of " \o snapshot

snapshot_get(s, key) ==
    IF Failed(s) THEN s ELSE Return(s, Entry(key, s.ret))

(* ControlTower.percentage_complete                                        *)
percentage_complete(x) == snapshot_get(_get_status(x), "PercentageComplete")

(* ControlTower.deploying_messages                                         *)
deploying_messages(x) == snapshot_get(_get_status(x), "Messages")

(* ControlTower.region_metadata_list                                       *)
region_metadata_list(x) == snapshot_get(_get_status(x), "RegionMetadataList")

get_changing_accounts_response(r) ==
    IF Failed(r) THEN r
    ELSE Return(r, {a \in AccountIds : r.env.provisioned[a] = "UNDER_CHANGE"})

(* ControlTower.get_changing_accounts: the provisioned products of type    *)
(* CONTROL_TOWER_ACCOUNT whose status is UNDER_CHANGE.                     *)
get_changing_accounts(x) ==
    get_changing_accounts_response(
        client_call(x, "servicecatalog", "search_provisioned_products",
                    "get_changing_accounts"))

busy_any(c, is_busy) == Return(Ev(c, "busy", is_busy, "evaluated"), is_busy)

busy_changing(c, status_) ==
    IF Failed(c) THEN c
    ELSE busy_any(c, IF status_ = "IN_PROGRESS" \/ c.ret # {}
                     THEN "True" ELSE "False")

busy_status(s) ==
    IF Failed(s) THEN s ELSE busy_changing(get_changing_accounts(s), s.ret)

(* ControlTower.busy: any([self.status == 'IN_PROGRESS',                   *)
(* self.get_changing_accounts()]); the list is built before any() runs, so *)
(* both elements are always evaluated.                                     *)
busy(x) == busy_status(status(x))

(* A gate that marks the control plane as in progress for who passes.      *)
validate_availability_busy_locking(b, method) ==
    IF Failed(b) THEN b
    ELSE IF b.ret = "True" THEN Raise(b, "ControlTowerBusy")
    ELSE Ev([b EXCEPT !.env.lz = "IN_PROGRESS"], "method", method, "body")

(* A gate without its busy check.                                          *)
validate_availability_busy_unchecked(b, method) ==
    IF Failed(b) THEN b ELSE Ev(b, "method", method, "body")

validate_availability_busy(b, method) ==
    IF Failed(b) THEN b
    ELSE IF b.ret = "True" THEN Raise(b, "ControlTowerBusy")
    ELSE Ev(b, "method", method, "body")

(* A gate without its deployment check.                                    *)
validate_availability_deployed_unchecked(d, method) ==
    IF Failed(d) THEN d
    ELSE validate_availability_busy(
             busy(Ev(d, "validate_availability", method, "busy")), method)

validate_availability_deployed(d, method) ==
    IF Failed(d) THEN d
    ELSE IF d.ret # "True" THEN Raise(d, "ControlTowerNotDeployed")
    ELSE validate_availability_busy(
             busy(Ev(d, "validate_availability", method, "busy")), method)

(* ControlTower.validate_availability: the decorator's checks; the wrapped *)
(* method runs only in a context this returns without an exception.        *)
validate_availability(x, method) ==
    IF Failed(x) THEN x
    ELSE validate_availability_deployed(
             is_deployed(Ev(x, "validate_availability", method, "is_deployed")),
             method)

----------------------------------------------------------------------------
(* The paginated result stream.                                            *)

(* Cursors are the strings "2", "3", ...: the cursor of page i.  A page is *)
(* [items, next]; next = None is a response without the cursor field and   *)
(* next = "" one whose cursor field is empty.                              *)
Cursor(i) == ToString(i)

CursorIndex(token) ==
    IF token = None THEN 1
    ELSE CHOOSE i \in 1..(MaxPages + 2) : Cursor(i) = token

RECURSIVE Chunks(_, _, _)
Chunks(items, size, i) ==
    IF Len(items) <= size THEN <<[items |-> items, next |-> None]>>
    ELSE <<[items |-> SubSeq(items, 1, size), next |-> Cursor(i + 1)]>>
         \o Chunks(SubSeq(items, size + 1, Len(items)), size, i + 1)

(* What the control plane answers to a list request carrying `token`.      *)
ServerPages(e, target) ==
    IF target = "listManagedOrganizationalUnits"
    THEN Chunks(e.managedOUs, MaxItems, 1)
    ELSE e.pages

ServerPage(e, target, token) == ServerPages(e, target)[CursorIndex(token)]

(* A page fetch that takes any response for a page.                        *)
_get_partial_response_ok_unchecked(r, target, token) ==
    IF Failed(r) THEN r ELSE Return(r, ServerPage(r.env, target, token))

(* A page fetch that asks once more for a page the transport failed.       *)
_get_partial_response_ok_retrying(r, target, token) ==
    IF Failed(r) THEN r
    ELSE IF r.ret = "not ok"
    THEN _get_partial_response_ok_unchecked(
             session_post(Ev(r, "NextToken", token, target), target,
                          "_get_partial_response"),
             target, token)
    ELSE Return(r, ServerPage(r.env, target, token))

(* The event <<"ValueError", "response.text", site>> records the argument  *)
(* the exception is constructed with.                                      *)
_get_partial_response_ok(r, target, token) ==
    IF Failed(r) THEN r
    ELSE IF r.ret = "not ok"
    THEN Raise(Ev(r, "ValueError", "response.text", "_get_partial_response"),
               "ValueError")
    ELSE Return(r, ServerPage(r.env, target, token))

(* ControlTower._get_partial_response: a response that is not ok raises    *)
(* ValueError(response.text); otherwise (response, next_token).            *)
_get_partial_response(x, target, token) ==
    _get_partial_response_ok(
        session_post(Ev(x, "NextToken", token, target), target,
                     "_get_partial_response"),
        target, token)

(* The generator object of _get_paginated_results: not started, suspended  *)
(* at a yield, or finished.  token is the cursor in the payload's          *)
(* contentString, buf the elements of the current page still to yield.     *)
new_generator(target, object_group) ==
    [state |-> "created", target |-> target, object_group |-> object_group,
     token |-> None, next_token |-> None, buf |-> <<>>]

StopIteration(x, g) ==
    [x EXCEPT !.ret = [g |-> [g EXCEPT !.state = "finished"], stop |-> TRUE,
                       item |-> <<>>]]

(* A stream that leaves out the first element of a page of several.       *)
Yielded_rest(page, object_group) ==
    IF ~object_group THEN <<page>>
    ELSE IF Len(page.items) > 1 THEN Tail(page.items)
    ELSE page.items

(* What one page contributes to the stream: its elements under             *)
(* object_group, or the decoded response itself without one.               *)
Yielded(page, object_group) ==
    IF object_group THEN page.items ELSE <<page>>

RECURSIVE generator_resume(_, _), generator_page(_, _, _)

(* A generator that follows the cursor of its first page only.             *)
generator_resume_following_once(x, g) ==
    IF Len(g.buf) > 0
    THEN Return(x, [g |-> [g EXCEPT !.buf = Tail(@)], stop |-> FALSE,
                    item |-> <<Head(g.buf)>>])
    ELSE IF g.next_token \notin {None, ""} /\ g.token = None
    THEN generator_page(_get_partial_response(x, g.target, g.next_token), g,
                        g.next_token)
    ELSE StopIteration(x, g)

(* A generator that ends after the one body it yields without              *)
(* object_group.                                                           *)
generator_resume_once(x, g) ==
    IF Len(g.buf) > 0
    THEN Return(x, [g |-> [g EXCEPT !.buf = Tail(@)], stop |-> FALSE,
                    item |-> <<Head(g.buf)>>])
    ELSE IF g.object_group /\ g.next_token \notin {None, ""}
    THEN generator_page(_get_partial_response(x, g.target, g.next_token), g,
                        g.next_token)
    ELSE StopIteration(x, g)

(* The page just fetched with cursor `token`: its elements are yielded one *)
(* by one; an exception finishes the generator.                            *)
generator_page(r, g, token) ==
    IF Failed(r) THEN StopIteration(r, g)
    ELSE generator_resume(r, [g EXCEPT !.state = "suspended",
                                       !.token = token,
                                       !.next_token = r.ret.next,
                                       !.buf = Yielded(r.ret, g.object_group)])

(* Runs the generator body from its current point to the next yield or to  *)
(* its end: `while next_token:` fetches the next page.                     *)
generator_resume(x, g) ==
    IF Len(g.buf) > 0
    THEN Return(x, [g |-> [g EXCEPT !.buf = Tail(@)], stop |-> FALSE,
                    item |-> <<Head(g.buf)>>])
    ELSE IF g.next_token \notin {None, ""}
    THEN generator_page(_get_partial_response(x, g.target, g.next_token), g,
                        g.next_token)
    ELSE StopIteration(x, g)

(* next(generator) on ControlTower._get_paginated_results(...)             *)
_get_paginated_results(x, g) ==
    IF g.state = "finished" THEN StopIteration(x, g)
    ELSE IF g.state = "created"
    THEN generator_page(
             _get_partial_response(_get_api_payload(x, g.target, None),
                                   g.target, None),
             g, None)
    ELSE generator_resume(x, g)

----------------------------------------------------------------------------
(* Gated operations of ControlTower.                                       *)

(* A property that asks for the first page before it returns.              *)
property_generator_eager(g, target) ==
    IF Failed(g) THEN g
    ELSE Return(session_post(g, target, "_get_partial_response"),
                new_generator(target, TRUE))

property_generator(g, target) ==
    IF Failed(g) THEN g ELSE Return(g, new_generator(target, TRUE))

(* ControlTower.organizational_units: the gate runs when the property is   *)
(* read; the generator it returns has issued no request yet.               *)
organizational_units(x) ==
    property_generator(validate_availability(x, "organizational_units"),
                       "listManagedOrganizationalUnits")

(* ControlTower.accounts                                                   *)
accounts(x) ==
    property_generator(validate_availability(x, "accounts"), "listManagedAccounts")

RECURSIVE first_match(_, _), first_match_next(_, _)

(* A lookup that takes one more element from the generator after a match.  *)
first_match_next_looking_ahead(r, value) ==
    IF Failed(r) THEN r
    ELSE IF r.ret.stop THEN Return(r, None)
    ELSE IF r.ret.item[1] = value
    THEN Return(_get_paginated_results(r, r.ret.g), value)
    ELSE first_match(r, value)

first_match_next(r, value) ==
    IF Failed(r) THEN r
    ELSE IF r.ret.stop THEN Return(r, None)
    ELSE IF r.ret.item[1] = value THEN Return(r, value)
    ELSE first_match(r, value)

(* next((e for e in generator if e == value), None); the generator is the  *)
(* value the context holds.                                                *)
first_match(x, value) ==
    IF Failed(x) THEN x
    ELSE first_match_next(_get_paginated_results(x, x.ret.g), value)

Generator(x) ==
    IF Failed(x) THEN x ELSE Return(x, [g |-> x.ret, stop |-> FALSE, item |-> <<>>])

(* ControlTower.get_organizational_unit_by_name; an OU's id is its name.   *)
get_organizational_unit_by_name(x, name) ==
    first_match(
        Generator(organizational_units(
            validate_availability(x, "get_organizational_unit_by_name"))),
        name)

root_ou_memoise(r) ==
    IF Failed(r) THEN r ELSE [r EXCEPT !.ct.root_ou = r.ret]

root_ou_gated(g) ==
    IF Failed(g) THEN g
    ELSE IF g.ct.root_ou # None THEN Return(g, g.ct.root_ou)
    ELSE root_ou_memoise(get_organizational_unit_by_name(g, "Root"))

(* ControlTower.root_ou: the gate runs on every read, also when _root_ou   *)
(* is already set.                                                         *)
root_ou(x) == root_ou_gated(validate_availability(x, "root_ou"))

attribute(r) ==
    IF Failed(r) THEN r
    ELSE IF r.ret = None THEN Raise(r, "AttributeError")
    ELSE r

(* self.root_ou.id, self.root_ou.name: None has no attributes.             *)
root_ou_attribute(x) == attribute(root_ou(x))

_register_org_ou_in_control_tower_response(r, name) ==
    IF Failed(r) THEN r
    ELSE IF r.ret = "not ok" THEN Return(r, "False")
    ELSE Return(Ev([r EXCEPT !.env.managedOUs =
                          IF \E i \in 1..Len(@) : @[i] = name
                          THEN @ ELSE Append(@, name)],
                   "sleep", "settling_time", "_register_org_ou_in_control_tower"),
                "True")

(* ControlTower._register_org_ou_in_control_tower: the payload reads       *)
(* self.root_ou.id and self.root_ou.name; a response that is ok is         *)
(* followed by time.sleep(self.settling_time).                             *)
_register_org_ou_in_control_tower(x, name) ==
    _register_org_ou_in_control_tower_response(
        session_post(
            _get_api_payload(root_ou_attribute(root_ou_attribute(x)),
                             "manageOrganizationalUnit", None),
            "manageOrganizationalUnit", "_register_org_ou_in_control_tower"),
        name)

(* The outcome of the directory's create call: False for a ClientError,    *)
(* the response ("created") otherwise.                                     *)
create_organizational_unit_created(c, name) ==
    IF c.err = "ClientError" THEN [c EXCEPT !.err = NoErr, !.ret = "False"]
    ELSE IF name \in c.env.orgOUs
    THEN Return(Ev(c, "ClientError", "DuplicateOrganizationalUnitException",
                   "create_organizational_unit"), "False")
    ELSE Return([c EXCEPT !.env.orgOUs = @ \cup {name}], "created")

(* A creation that goes on to register whatever the directory answered.    *)
create_organizational_unit_register_unchecked(c, name) ==
    IF Failed(c) THEN c
    ELSE _register_org_ou_in_control_tower(c, name)

(* return self._register_org_ou_in_control_tower(org_ou), reached with the *)
(* directory's response.                                                   *)
create_organizational_unit_register(c, name) ==
    IF Failed(c) \/ c.ret = "False" THEN c
    ELSE _register_org_ou_in_control_tower(c, name)

create_organizational_unit_response(c, name) ==
    create_organizational_unit_register(
        create_organizational_unit_created(c, name), name)

(* The method up to the directory's answer.                                *)
create_organizational_unit_directory(root, name) ==
    IF Failed(root) THEN root
    ELSE create_organizational_unit_created(
             client_call(root, "organizations", "create_organizational_unit",
                         "create_organizational_unit"),
             name)

create_organizational_unit_root(root, name) ==
    IF Failed(root) THEN root
    ELSE create_organizational_unit_response(
             client_call(root, "organizations", "create_organizational_unit",
                         "create_organizational_unit"),
             name)

(* The method the gate wraps.                                              *)
create_organizational_unit_body(x, name) ==
    create_organizational_unit_root(root_ou_attribute(x), name)

(* ControlTower.create_organizational_unit: the directory service rejects  *)
(* a name that already exists under the root with a ClientError, which the *)
(* method turns into False like any other ClientError of that call.        *)
create_organizational_unit(x, name) ==
    create_organizational_unit_body(
        validate_availability(x, "create_organizational_unit"), name)

delete_organizational_unit_deleted(d, name) ==
    IF Failed(d) THEN d
    ELSE Return([d EXCEPT !.env.orgOUs = @ \ {name}], "True")

(* A deletion that removes the directory's OU before it deregisters it.    *)
delete_organizational_unit_found_directory_first(f, name) ==
    IF Failed(f) THEN f
    ELSE IF f.ret = None THEN Return(f, "False")
    ELSE delete_organizational_unit_deleted(
             client_call(f, "organizations", "delete_organizational_unit",
                         "delete_organizational_unit"),
             name)

(* A deletion that goes on to the directory whatever the control plane     *)
(* answered to the deregistration.                                         *)
delete_organizational_unit_response_unchecked(r, name) ==
    IF Failed(r) THEN r
    ELSE delete_organizational_unit_deleted(
             client_call([r EXCEPT !.env.managedOUs =
                                       IF r.ret = "not ok" THEN @
                                       ELSE SelectSeq(@, LAMBDA ou : ou # name)],
                         "organizations", "delete_organizational_unit",
                         "delete_organizational_unit"),
             name)

delete_organizational_unit_response(r, name) ==
    IF Failed(r) THEN r
    ELSE IF r.ret = "not ok" THEN Return(r, "False")
    ELSE delete_organizational_unit_deleted(
             client_call([r EXCEPT !.env.managedOUs =
                                       SelectSeq(@, LAMBDA ou : ou # name)],
                         "organizations", "delete_organizational_unit",
                         "delete_organizational_unit"),
             name)

delete_organizational_unit_found(f, name) ==
    IF Failed(f) THEN f
    ELSE IF f.ret = None THEN Return(f, "False")
    ELSE delete_organizational_unit_response(
             session_post(_get_api_payload(f, "deregisterOrganizationalUnit", None),
                          "deregisterOrganizationalUnit", "delete_organizational_unit"),
             name)

(* ControlTower.delete_organizational_unit: the OU is deregistered from    *)
(* the control plane, then deleted from the directory; a ClientError of    *)
(* the directory call is not caught.                                       *)
delete_organizational_unit(x, name) ==
    delete_organizational_unit_found(
        get_organizational_unit_by_name(
            validate_availability(x, "delete_organizational_unit"), name),
        name)

organizations_ous_response(r) ==
    IF Failed(r) THEN r ELSE Return(r, r.env.orgOUs)

(* ControlTower.organizations_ous: the directory's OUs under               *)
(* self.root_ou.id.                                                        *)
organizations_ous(x) ==
    organizations_ous_response(
        client_call(root_ou_attribute(validate_availability(x, "organizations_ous")),
                    "organizations", "list_organizational_units_for_parent",
                    "organizations_ous"))

get_organizations_ou_by_name_match(o, name) ==
    IF Failed(o) THEN o ELSE Return(o, IF name \in o.ret THEN name ELSE None)

(* ControlTower.get_organizations_ou_by_name                               *)
get_organizations_ou_by_name(x, name) ==
    get_organizations_ou_by_name_match(
        organizations_ous(validate_availability(x, "get_organizations_ou_by_name")),
        name)

register_organizations_ou_org_ou(o, name) ==
    IF Failed(o) THEN o
    ELSE IF o.ret = None THEN Return(o, "False")
    ELSE _register_org_ou_in_control_tower(o, name)

(* A registration that does not look for the name among the managed OUs.   *)
register_organizations_ou_found_unchecked(f, name) ==
    IF Failed(f) THEN f
    ELSE register_organizations_ou_org_ou(get_organizations_ou_by_name(f, name), name)

register_organizations_ou_found(f, name) ==
    IF Failed(f) THEN f
    ELSE IF f.ret # None THEN Return(f, "True")
    ELSE register_organizations_ou_org_ou(get_organizations_ou_by_name(f, name), name)

(* ControlTower.register_organizations_ou                                  *)
register_organizations_ou(x, name) ==
    register_organizations_ou_found(
        get_organizational_unit_by_name(
            validate_availability(x, "register_organizations_ou"), name),
        name)

drift_messages_response(r) ==
    IF Failed(r) THEN r
    ELSE IF r.ret = "not ok" THEN Return(r, "[]")
    ELSE Return(r, "DriftDetails")

(* ControlTower.drift_messages                                             *)
drift_messages(x) ==
    drift_messages_response(
        session_post(
            _get_api_payload(validate_availability(x, "drift_messages"),
                             "listDriftDetails", None),
            "listDriftDetails", "drift_messages"))

(* What the catalog does with an accepted provisioning request: the new    *)
(* account's provisioned product exists and is UNDER_CHANGE.               *)
Provisioned(e) ==
    IF \E a \in AccountIds : e.provisioned[a] = "NONE"
    THEN LET a == CHOOSE a \in AccountIds :
                      /\ e.provisioned[a] = "NONE"
                      /\ \A b \in AccountIds : e.provisioned[b] = "NONE" => a <= b
         IN  [e EXCEPT !.provisioned[a] = "UNDER_CHANGE"]
    ELSE e

(* A create_account that does not tell the CREATING message apart.         *)
provision_product_response_unmatched(r, answer) ==
    IF Failed(r) THEN r
    ELSE IF answer \in {"CREATING", "ClientError"} THEN Raise(r, "ClientError")
    ELSE Return([r EXCEPT !.env = Provisioned(@)],
                IF answer = "200" THEN "True" ELSE "False")

provision_product_response(r, answer) ==
    IF Failed(r) THEN r
    ELSE IF answer = "CREATING" THEN Raise(r, "OUCreating")
    ELSE IF answer = "ClientError" THEN Raise(r, "ClientError")
    ELSE Return([r EXCEPT !.env = Provisioned(@)],
                IF answer = "200" THEN "True" ELSE "False")

(* service_catalog.provision_product and what create_account makes of it.  *)
(* answer is the catalog's: an HTTP status, or "CREATING" for the          *)
(* ClientError whose message holds CREATING_ACCOUNT_ERROR_MESSAGE, or      *)
(* "ClientError" for one with another message.                             *)
provision_product(x, answer) ==
    provision_product_response(
        client_call(x, "servicecatalog", "provision_product", "create_account"),
        answer)

(* ControlTower._active_artifact                                           *)
_active_artifact(x) ==
    client_call(x, "servicecatalog", "list_provisioning_artifacts",
                "_active_artifact")

(* self._account_factory.product_id: _account_factory is None when the     *)
(* instance was constructed before the landing zone was deployed.          *)
product_id(x) ==
    IF Failed(x) THEN x
    ELSE IF x.ct.account_factory = None THEN Raise(x, "AttributeError")
    ELSE Return(x, "product_id")

create_account_provision(ready, answer) ==
    provision_product(_active_artifact(product_id(ready)), answer)

(* A create_account that provisions whatever the OU's creation returned.   *)
create_account_created_unchecked(created, answer) ==
    IF Failed(created) THEN created
    ELSE create_account_provision(created, answer)

create_account_created(created, answer) ==
    IF Failed(created) THEN created
    ELSE IF created.ret # "True" THEN Return(created, "False")
    ELSE create_account_provision(created, answer)

create_account_found(found, organizational_unit, answer) ==
    IF Failed(found) THEN found
    ELSE IF found.ret = None
    THEN create_account_created(
             create_organizational_unit(found, organizational_unit), answer)
    ELSE create_account_provision(found, answer)

(* ControlTower.create_account below its retry decorator: one attempt.     *)
create_account(x, organizational_unit, answer) ==
    create_account_found(
        get_organizational_unit_by_name(
            validate_availability(x, "create_account"), organizational_unit),
        organizational_unit, answer)

----------------------------------------------------------------------------
(* ControlTowerAccount: the three tiers of an account's data.              *)

(* What search_provisioned_products answers for physicalId:a.              *)
CatalogRecord(e, a) ==
    IF a \in AccountIds /\ e.provisioned[a] # "NONE"
    THEN [resolved |-> "record", Id |-> "pp", Status |-> e.provisioned[a],
          LastRecordId |-> e.lastRecordId[a]]
    ELSE empty_record

(* A search that keeps a result only if it found a record.                 *)
_service_catalog_data_response_unmemoised(r) ==
    IF Failed(r) THEN r
    ELSE [r EXCEPT !.acct.service_catalog_data =
                       IF CatalogRecord(r.env, r.acct.data.AccountId) = empty_record
                       THEN unresolved
                       ELSE CatalogRecord(r.env, r.acct.data.AccountId),
                   !.ret = CatalogRecord(r.env, r.acct.data.AccountId)]

_service_catalog_data_response(r) ==
    IF Failed(r) THEN r
    ELSE [r EXCEPT !.acct.service_catalog_data = CatalogRecord(r.env, r.acct.data.AccountId),
                   !.ret = CatalogRecord(r.env, r.acct.data.AccountId)]

(* A tier 2 that is searched at every read.                                *)
_service_catalog_data_unmemoised(x) ==
    IF Failed(x) THEN x
    ELSE _service_catalog_data_response(
             client_call(x, "servicecatalog", "search_provisioned_products",
                         "_service_catalog_data"))

(* ControlTowerAccount._service_catalog_data: searched when the field is   *)
(* None; a search without results leaves {} in the field.                  *)
_service_catalog_data(x) ==
    IF Failed(x) THEN x
    ELSE IF x.acct.service_catalog_data.resolved # None
    THEN Return(x, x.acct.service_catalog_data)
    ELSE _service_catalog_data_response(
             client_call(x, "servicecatalog", "search_provisioned_products",
                         "_service_catalog_data"))

_record_data_response(r) ==
    IF Failed(r) THEN r
    ELSE [r EXCEPT !.acct.record_data =
                       [resolved |-> "record", Id |-> r.acct.service_catalog_data.LastRecordId,
                        Status |-> None, LastRecordId |-> None],
                   !.ret = [resolved |-> "record",
                            Id |-> r.acct.service_catalog_data.LastRecordId,
                            Status |-> None, LastRecordId |-> None]]

(* A tier 3 that is asked for whatever tier 2 holds.                       *)
_record_data_last_record_id_unchecked(l) ==
    IF Failed(l) THEN l
    ELSE _record_data_response(
             client_call(l, "servicecatalog", "describe_record", "_record_data"))

_record_data_last_record_id(l) ==
    IF Failed(l) THEN l
    ELSE IF l.ret.LastRecordId = None
    THEN [l EXCEPT !.acct.record_data = empty_record, !.ret = empty_record]
    ELSE _record_data_response(
             client_call(l, "servicecatalog", "describe_record", "_record_data"))

(* ControlTowerAccount._record_data: self.last_record_id reads             *)
(* _service_catalog_data.                                                  *)
_record_data(x) ==
    IF Failed(x) THEN x
    ELSE IF x.acct.record_data.resolved # None THEN Return(x, x.acct.record_data)
    ELSE _record_data_last_record_id(_service_catalog_data(x))

get(r, key) ==
    IF Failed(r) THEN r ELSE Return(r, r.ret[key])

(* ControlTowerAccount.service_catalog_status, .service_catalog_id         *)
service_catalog_status(x) == get(_service_catalog_data(x), "Status")

service_catalog_id(x) == get(_service_catalog_data(x), "Id")

sso_user_email_entry(r) ==
    IF Failed(r) THEN r
    ELSE Return(r, IF r.ret.resolved = "record" THEN "OutputValue" ELSE None)

(* ControlTowerAccount.sso_user_email: the OutputValue of the entry of     *)
(* _record_data's RecordOutputs, None without one.                         *)
sso_user_email(x) == sso_user_email_entry(_record_data(x))

(* ControlTowerAccount.landing_zone_version                                *)
account_landing_zone_version(x) ==
    IF Failed(x) THEN x ELSE Return(x, x.acct.data.DeployedLandingZoneVersion)

_update_data_memoise(r) ==
    IF Failed(r) THEN r
    ELSE [r EXCEPT !.ct.update_data = [resolved |-> "record",
                                       UserLandingZoneVersion |-> r.env.version],
                   !.ret = [resolved |-> "record",
                            UserLandingZoneVersion |-> r.env.version]]

(* ControlTower._update_data: the first element of the stream of           *)
(* getAvailableUpdates, fetched when _update_data_ is None; the response   *)
(* holds the landing zone's version.                                       *)
_update_data(x) ==
    IF Failed(x) THEN x
    ELSE IF x.ct.update_data.resolved # None THEN Return(x, x.ct.update_data)
    ELSE _update_data_memoise(
             _get_paginated_results(x, new_generator("getAvailableUpdates", FALSE)))

(* ControlTower.landing_zone_version                                       *)
landing_zone_version(x) ==
    get(_update_data(validate_availability(x, "landing_zone_version")),
        "UserLandingZoneVersion")

(* float(text): the number a version's text denotes, in thousandths.       *)
float(v) ==
    (IF Len(v) > 0 THEN 1000 * v[1] ELSE 0)
    + (IF Len(v) > 1 THEN 100 * v[2] ELSE 0)
    + (IF Len(v) > 2 THEN 10 * v[3] ELSE 0)

(* A comparison that takes equal versions for an update.                   *)
less_than_or_equal(a, b) == float(a) <= float(b)

less_than(a, b) == float(a) < float(b)

has_available_update_compare(c, own) ==
    IF Failed(c) THEN c
    ELSE IF c.ret = <<>> THEN Raise(c, "TypeError")
    ELSE Return(c, IF less_than(own, c.ret) THEN "True" ELSE "False")

has_available_update_own(o) ==
    IF Failed(o) THEN o
    ELSE IF o.ret = <<>> THEN Raise(o, "TypeError")
    ELSE has_available_update_compare(landing_zone_version(o), o.ret)

(* ControlTowerAccount.has_available_update: float(None) is a TypeError.   *)
has_available_update(x) == has_available_update_own(account_landing_zone_version(x))

core_account_types == <<"PRIMARY", "LOGGING", "SECURITY">>

RECURSIVE core_accounts_fetch(_, _, _)

(* A fetch that appends what it has and goes on after a failed request.    *)
core_accounts_fetched_unchecked(r, types, got) ==
    IF Failed(r) THEN r
    ELSE core_accounts_fetch(r, Tail(types),
                             IF r.ret = "not ok" THEN got ELSE Append(got, Head(types)))

core_accounts_fetched(r, types, got) ==
    IF Failed(r) THEN r
    ELSE IF r.ret = "not ok" THEN Raise(r, "ServiceCallFailed")
    ELSE core_accounts_fetch(r, Tail(types), Append(got, Head(types)))

(* The loop over core_account_types: one describeCoreService request per   *)
(* label; self._core_accounts is assigned after the loop.                  *)
core_accounts_fetch(x, types, got) ==
    IF Failed(x) THEN x
    ELSE IF types = <<>> THEN Return([x EXCEPT !.ct.core_accounts = got], got)
    ELSE core_accounts_fetched(
             session_post(Ev(x, "AccountType", Head(types), "core_accounts"),
                          "describeCoreService", "core_accounts"),
             types, got)

(* ControlTower.core_accounts behind its gate; <<>> is the None that       *)
(* self._core_accounts holds until the loop has ended.                     *)
core_accounts_gated(v) ==
    IF Failed(v) THEN v
    ELSE IF v.ct.core_accounts # <<>> THEN Return(v, v.ct.core_accounts)
    ELSE core_accounts_fetch(v, core_account_types, <<>>)

core_accounts(x) == core_accounts_gated(validate_availability(x, "core_accounts"))

(* ControlTower.get_account_by_id                                          *)
get_account_by_id(x, id_) ==
    first_match(
        Generator(accounts(validate_availability(x, "get_account_by_id"))), id_)

(* `v is None`, for a v that is an account id or None.                     *)
is_None(v) == ToString(v) = ToString(None)

(* A _refresh that resets tiers 2 and 3 and keeps tier 1.                  *)
_refresh_found_keeping_data(f) ==
    IF Failed(f) THEN f
    ELSE IF is_None(f.ret) THEN Raise(f, "AttributeError")
    ELSE [f EXCEPT !.acct.service_catalog_data = unresolved,
                   !.acct.record_data = unresolved,
                   !.ret = None]

(* A _refresh that resets tiers 2 and 3 before it looks at the answer.     *)
_refresh_found_resetting_first(f) ==
    IF Failed(f) \/ is_None(f.ret)
    THEN [(IF Failed(f) THEN f ELSE Raise(f, "AttributeError"))
             EXCEPT !.acct.service_catalog_data = unresolved,
                    !.acct.record_data = unresolved]
    ELSE [f EXCEPT !.acct.data = f.env.managedAccounts[f.ret],
                   !.acct.service_catalog_data = unresolved,
                   !.acct.record_data = unresolved,
                   !.ret = None]

_refresh_found(f) ==
    IF Failed(f) THEN f
    ELSE IF is_None(f.ret) THEN Raise(f, "AttributeError")
    ELSE [f EXCEPT !.acct.data = f.env.managedAccounts[f.ret],
                   !.acct.service_catalog_data = unresolved,
                   !.acct.record_data = unresolved,
                   !.ret = None]

(* ControlTowerAccount._refresh: get_account_by_id(self.id)._data, where   *)
(* None has no _data; then tiers 2 and 3 are set to None.                  *)
_refresh(x) ==
    IF Failed(x) THEN x ELSE _refresh_found(get_account_by_id(x, x.acct.data.AccountId))

(* ControlTower.get_organizational_unit_by_id; an OU's id is its name.     *)
get_organizational_unit_by_id(x, id_) ==
    first_match(
        Generator(organizational_units(
            validate_availability(x, "get_organizational_unit_by_id"))),
        id_)

(* self.organizational_unit.name                                           *)
organizational_unit_name(x) ==
    IF Failed(x) THEN x
    ELSE attribute(get_organizational_unit_by_id(
                       x, x.acct.data.ParentOrganizationalUnitId))

update_response(r) ==
    IF Failed(r) THEN r
    ELSE Return([r EXCEPT !.env.provisioned[r.acct.data.AccountId] = "UNDER_CHANGE"],
                "True")

update_busy(b) ==
    IF Failed(b) THEN b
    ELSE IF b.ret = "True" THEN Raise(b, "ControlTowerBusy")
    ELSE update_response(
             client_call(organizational_unit_name(_active_artifact(product_id(b))),
                         "servicecatalog", "update_provisioned_product", "update"))

update_has_available_update(h) ==
    IF Failed(h) THEN h
    ELSE IF h.ret # "True" THEN Return(h, "True")
    ELSE update_busy(busy(h))

(* ControlTowerAccount.update                                              *)
update(x) == update_has_available_update(has_available_update(x))

----------------------------------------------------------------------------
(* ControlTowerAccount.delete and the policies it attaches and detaches.   *)

suspended_ou_name == "Suspended"

service_control_policies_response(r) ==
    IF Failed(r) THEN r ELSE Return(r, r.env.policies)

(* ControlTower.service_control_policies                                   *)
service_control_policies(x) ==
    service_control_policies_response(
        client_call(validate_availability(x, "service_control_policies"),
                    "organizations", "list_policies", "service_control_policies"))

get_service_control_policy_by_name_match(p, name) ==
    IF Failed(p) THEN p ELSE Return(p, IF name \in p.ret THEN name ELSE None)

(* ControlTower.get_service_control_policy_by_name; a policy's id is its   *)
(* name.                                                                   *)
get_service_control_policy_by_name(x, name) ==
    get_service_control_policy_by_name_match(
        service_control_policies(
            validate_availability(x, "get_service_control_policy_by_name")),
        name)

(* response.get('ResponseMetadata', {}).get('HTTPStatusCode') == 200: the  *)
(* directory answers with env.policy_status; False for any other status.   *)
_action_service_control_policy_response(r, action, scp_name) ==
    IF Failed(r) THEN r
    ELSE IF r.env.policy_status # 200 THEN Return(r, "False")
    ELSE Return([r EXCEPT !.env.attached[r.acct.data.AccountId] =
                              IF action = "attach" THEN @ \cup {scp_name}
                              ELSE @ \ {scp_name}],
                "True")

(* An attach or detach that does not look at what the lookup found.        *)
_action_service_control_policy_scp_unchecked(scp, action, scp_name) ==
    IF Failed(scp) THEN scp
    ELSE _action_service_control_policy_response(
             client_call(scp, "organizations",
                         IF action = "attach" THEN "attach_policy" ELSE "detach_policy",
                         scp_name),
             action, scp_name)

_action_service_control_policy_scp(scp, action, scp_name) ==
    IF Failed(scp) THEN scp
    ELSE IF scp.ret = None THEN Raise(scp, "NonExistentSCP")
    ELSE _action_service_control_policy_response(
             client_call(scp, "organizations",
                         IF action = "attach" THEN "attach_policy" ELSE "detach_policy",
                         scp_name),
             action, scp_name)

(* ControlTowerAccount._action_service_control_policy: the event of the    *)
(* attach_policy or detach_policy call names the policy as its site.       *)
_action_service_control_policy(x, action, scp_name) ==
    _action_service_control_policy_scp(
        get_service_control_policy_by_name(x, scp_name), action, scp_name)

attach_service_control_policy(x, name) ==
    _action_service_control_policy(x, "attach", name)

detach_service_control_policy(x, name) ==
    _action_service_control_policy(x, "detach", name)

_terminate_response(r) ==
    IF Failed(r) THEN r
    ELSE Return([r EXCEPT !.env.provisioned[r.acct.data.AccountId] = "UNDER_CHANGE"],
                "ok")

_terminate_id(i) ==
    IF Failed(i) THEN i
    ELSE IF i.ret = None THEN Raise(i, "ParamValidationError")
    ELSE _terminate_response(
             client_call(i, "servicecatalog", "terminate_provisioned_product",
                         "_terminate"))

(* ControlTowerAccount._terminate: self.service_catalog_id reads the       *)
(* catalog record; botocore rejects ProvisionedProductId=None before it    *)
(* sends anything.  The product being terminated is UNDER_CHANGE.          *)
_terminate(x) == _terminate_id(service_catalog_id(x))

delete_detached(d) ==
    IF Failed(d) THEN [d EXCEPT !.acct.pc = "idle"]
    ELSE Return([d EXCEPT !.acct.pc = "idle"], None)

(* self.detach_service_control_policy('FullAWSAccess'), the last statement *)
(* of delete().                                                            *)
delete_detach(x) ==
    delete_detached(detach_service_control_policy(x, "FullAWSAccess"))

(* A delete() that, when its attach fails, moves the account back.         *)
delete_attached_rolling_back(a) ==
    IF Failed(a)
    THEN [a EXCEPT !.acct.pc = "idle",
                   !.env.managedAccounts[a.acct.data.AccountId]
                       .ParentOrganizationalUnitId = "Root"]
    ELSE Return([a EXCEPT !.acct.pc = "detaching"], None)

(* What attach_service_control_policy returns is not looked at; an         *)
(* exception ends delete().                                                *)
delete_attached(a) ==
    IF Failed(a) THEN [a EXCEPT !.acct.pc = "idle"]
    ELSE Return([a EXCEPT !.acct.pc = "detaching"], None)

(* self.attach_service_control_policy(self.control_tower.suspended_ou_name) *)
delete_attach(x) ==
    delete_attached(attach_service_control_policy(x, suspended_ou_name))

(* A delete() that detaches FullAWSAccess without attaching first.         *)
delete_moved_detaching_first(m) ==
    IF Failed(m) THEN [m EXCEPT !.acct.pc = "idle"]
    ELSE Return([m EXCEPT !.env.managedAccounts[m.acct.data.AccountId]
                              .ParentOrganizationalUnitId = m.acct.suspended_ou,
                          !.acct.pc = "detaching"], None)

delete_moved(m) ==
    IF Failed(m) THEN [m EXCEPT !.acct.pc = "idle"]
    ELSE Return([m EXCEPT !.env.managedAccounts[m.acct.data.AccountId]
                              .ParentOrganizationalUnitId = m.acct.suspended_ou,
                          !.acct.pc = "attaching"], None)

(* A delete() whose wait never ends.                                       *)
delete_busy_asleep(b) ==
    IF Failed(b) THEN [b EXCEPT !.acct.pc = "idle"]
    ELSE Return(Ev([b EXCEPT !.acct.pc = "polling"],
                   "sleep", "_info_polling_interval", "delete"), None)

(* The statement of delete() after its wait loop: the account is moved     *)
(* from self.control_tower.root_ou.id to suspended_ou.id.  The statements  *)
(* of delete() are a step each (pc = "attaching", "detaching"): the        *)
(* control plane changes between them.                                     *)
delete_move(x) ==
    delete_moved(
        client_call(root_ou_attribute(x), "organizations", "move_account", "delete"))

(* while self.control_tower.busy: sleep(self._info_polling_interval); the  *)
(* call rests in its sleep (pc = "polling") or has left the loop           *)
(* (pc = "moving").                                                        *)
delete_busy(b) ==
    IF Failed(b) THEN [b EXCEPT !.acct.pc = "idle"]
    ELSE IF b.ret = "True"
    THEN Return(Ev([b EXCEPT !.acct.pc = "polling"],
                   "sleep", "_info_polling_interval", "delete"), None)
    ELSE Return([b EXCEPT !.acct.pc = "moving"], None)

delete_poll(x) == delete_busy(busy(x))

(* A delete() that does not look for the suspended OU.                     *)
delete_suspended_ou_unchecked(f) ==
    IF Failed(f) THEN f
    ELSE delete_poll(_terminate([f EXCEPT !.acct.suspended_ou = f.ret]))

delete_suspended_ou(f) ==
    IF Failed(f) THEN f
    ELSE IF f.ret = None THEN Raise(f, "NoSuspendedOU")
    ELSE delete_poll(_terminate([f EXCEPT !.acct.suspended_ou = f.ret]))

(* ControlTowerAccount.delete                                              *)
delete(x) ==
    delete_suspended_ou(get_organizational_unit_by_name(x, suspended_ou_name))

----------------------------------------------------------------------------
(* The retry decorator of create_account:                                  *)
(* @retry(retry_on_exceptions=OUCreating, max_calls_total=7,               *)
(*        retry_window_after_first_call_in_seconds=60).                    *)

(* A retrier that retries on every exception.                              *)
retry_on_exceptions_any ==
    {"OUCreating", "ClientError", "ControlTowerBusy", "ControlTowerNotDeployed",
     "AttributeError"}

retry_on_exceptions == {"OUCreating"}

(* After a call that raised one of retry_on_exceptions: another call is    *)
(* made iff fewer than max_calls_total were made and the window that       *)
(* started with the first call has not elapsed; the sleep before it ends   *)
(* within the window.  Otherwise the last exception is raised.             *)
(* A retrier without a limit on its calls.                                 *)
retry_again_unlimited(calls, elapsed) ==
    elapsed <= retry_window_after_first_call_in_seconds

retry_again(calls, elapsed) ==
    /\ calls < max_calls_total
    /\ elapsed <= retry_window_after_first_call_in_seconds

retry_sleeps(elapsed) ==
    {w \in {0, 30} : elapsed + w <= retry_window_after_first_call_in_seconds}

Clock(t) ==
    IF t > retry_window_after_first_call_in_seconds
    THEN retry_window_after_first_call_in_seconds + 1 ELSE t

idle_retry ==
    [pc |-> "idle", calls |-> 0, elapsed |-> 0, started |-> 0, ou |-> None,
     creating |-> 0, provisions |-> 0, last_answer |-> None]

----------------------------------------------------------------------------
(* The state after construction.                                           *)

OUNames == {"Dev", "Suspended"}

Call(name, arg) == [name |-> name, arg |-> arg]

no_pages == <<[items |-> <<>>, next |-> None]>>

ControlTower_init_factory(d) ==
    IF d.ret = "True"
    THEN [client_call(d, "servicecatalog", "search_products", "_get_account_factory")
             EXCEPT !.ct.account_factory = "AccountFactory", !.ret = None]
    ELSE Return(d, None)

(* ControlTower.__init__: self.url reads self.region, then _account_factory *)
(* is looked up iff self.is_deployed.  No call fails: the instance exists. *)
ControlTower_init(e) ==
    ControlTower_init_factory(
        is_deployed(region(
            [ct |-> [id |-> 1, is_deployed |-> None, region |-> None,
                     account_factory |-> None, root_ou |-> None,
                     core_accounts |-> <<>>,
                     update_data |-> [resolved |-> None, UserLandingZoneVersion |-> <<>>]],
             cache |-> <<>>, env |-> e, trace |-> <<>>, n |-> 0, fails |-> {},
             err |-> NoErr, ret |-> None, acct |-> no_account])))

Callers == 1..NumCallers

(* No caller has an instance yet.                                          *)
no_callers ==
    [c \in Callers |-> [pc |-> "idle", ct |-> None, trace |-> <<>>,
                        result |-> [err |-> NoErr, ret |-> None]]]

(* The remote services: the landing zone's status and version, the         *)
(* catalog's provisioned product per account (status, last record id), the *)
(* managed OUs in listing order, the directory's OUs under the root, the   *)
(* pages the control plane answers other list requests with, the managed   *)
(* accounts' data, the directory's policies and their attachments.         *)
Services(l, p, m, o, pg) ==
    [lz |-> l, provisioned |-> p, managedOUs |-> m, orgOUs |-> o, pages |-> pg,
     version |-> <<3, 1>>,
     lastRecordId |-> [a \in AccountIds |-> None],
     managedAccounts |-> [a \in AccountIds |->
                             [AccountId |-> a, DeployedLandingZoneVersion |-> <<3, 1>>,
                              ParentOrganizationalUnitId |-> "Root"]],
     policies |-> {},
     policy_status |-> 200,
     attached |-> [a \in AccountIds |-> {}]]

Environments ==
    {Services(l, p, <<"Root">> \o m, {m[i] : i \in 1..Len(m)}, no_pages) :
        l \in LandingZoneStatuses,
        p \in [AccountIds -> {"NONE"}],
        m \in {<<>>, <<"Suspended", "Dev">>}}

no_stream == [g |-> new_generator(None, TRUE), open |-> FALSE, yielded |-> <<>>]

Init ==
    /\ env \in Environments
    /\ ct = ControlTower_init(env).ct
    /\ cache = <<>>
    /\ op = Call("__init__", None)
    /\ trace = ControlTower_init(env).trace
    /\ result = [err |-> NoErr, ret |-> None]
    /\ retry = idle_retry
    /\ stream = no_stream
    /\ account = no_account
    /\ callers = no_callers

----------------------------------------------------------------------------
(* The caller's operations.  Each runs to completion: the library is       *)
(* synchronous and single threaded.  A call names the method and its       *)
(* arguments.                                                              *)

Instances == 1..NumInstances

(* The context of a call through instance i of the process.                *)
InstanceCtx(i, fails) == [Ctx(fails) EXCEPT !.ct = callers[i].ct]

Run(call, fails) ==
    CASE call.name = "drift_messages" -> drift_messages(Ctx(fails))
      [] call.name = "status" -> status(InstanceCtx(call.arg, fails))
      [] call.name = "percentage_complete" ->
             percentage_complete(InstanceCtx(call.arg, fails))
      [] call.name = "deploying_messages" ->
             deploying_messages(InstanceCtx(call.arg, fails))
      [] call.name = "region_metadata_list" ->
             region_metadata_list(InstanceCtx(call.arg, fails))
      [] call.name = "get_organizational_unit_by_name" ->
             get_organizational_unit_by_name(Ctx(fails), call.arg)
      [] call.name = "is_deployed" -> is_deployed(Ctx(fails))
      [] call.name = "core_accounts" -> core_accounts(Ctx(fails))
      [] call.name = "busy" -> busy(Ctx(fails))
      [] call.name = "_get_api_payload" ->
             _get_api_payload(Ctx(fails), call.arg, call.region)
      [] call.name = "create_account" ->
             create_account(Ctx(fails), call.arg, call.answer)
      [] call.name = "accounts" -> accounts(Ctx(fails))
      [] call.name = "organizational_units" -> organizational_units(Ctx(fails))
      [] call.name = "next" -> _get_paginated_results(Ctx(fails), call.arg)
      [] call.name = "create_organizational_unit" ->
             create_organizational_unit(Ctx(fails), call.arg)
      [] call.name = "delete_organizational_unit" ->
             delete_organizational_unit(Ctx(fails), call.arg)
      [] call.name = "register_organizations_ou" ->
             register_organizations_ou(Ctx(fails), call.arg)
      [] call.name = "attach_service_control_policy" ->
             attach_service_control_policy(Ctx(fails), call.arg)
      [] call.name = "detach_service_control_policy" ->
             detach_service_control_policy(Ctx(fails), call.arg)
      [] call.name = "delete" -> delete(Ctx(fails))
      [] call.name = "delete (woken)" -> delete_poll(Ctx(fails))
      [] call.name = "delete (moving)" -> delete_move(Ctx(fails))
      [] call.name = "delete (attaching)" -> delete_attach(Ctx(fails))
      [] call.name = "delete (detaching)" -> delete_detach(Ctx(fails))
      [] call.name = "update" -> update(Ctx(fails))
      [] call.name = "_refresh" -> _refresh(Ctx(fails))
      [] call.name = "has_available_update" -> has_available_update(Ctx(fails))
      [] call.name = "service_catalog_status" -> service_catalog_status(Ctx(fails))
      [] call.name = "sso_user_email" -> sso_user_email(Ctx(fails))
      [] call.name = "landing_zone_version" -> account_landing_zone_version(Ctx(fails))

Top(fails) ==
    IF fails = {} THEN 0 ELSE CHOOSE i \in fails : \A j \in fails : j <= i

RECURSIVE FailSets(_, _, _)
(* The ways the transport can fail up to k more of the calls a call makes: *)
(* fails, and fails with one more of the calls issued after its last.      *)
FailSets(call, fails, k) ==
    IF k = 0 THEN {fails}
    ELSE {fails} \cup UNION {FailSets(call, fails \cup {i}, k - 1) :
                                i \in (Top(fails) + 1)..Run(call, fails).n}

(* op is the call just made, trace its events and result its outcome.      *)
Finish(x, call) ==
    /\ env' = x.env
    /\ ct' = x.ct
    /\ cache' = x.cache
    /\ op' = call
    /\ trace' = x.trace
    /\ result' = [err |-> x.err, ret |-> x.ret]

Do(call) ==
    \E fails \in FailSets(call, {}, MaxFails) : Finish(Run(call, fails), call)

DriftMessages ==
    /\ Do(Call("drift_messages", None))
    /\ UNCHANGED <<retry, stream, account, callers>>

GetOrganizationalUnitByName ==
    /\ \E name \in OUNames \cup {"Sandbox"} :
           Do(Call("get_organizational_unit_by_name", name))
    /\ UNCHANGED <<retry, stream, account, callers>>

IsDeployed ==
    /\ Do(Call("is_deployed", None))
    /\ UNCHANGED <<retry, stream, account, callers>>

Busy ==
    /\ Do(Call("busy", None))
    /\ UNCHANGED <<retry, stream, account, callers>>

Targets == {"listDriftDetails", "deleteLandingZone"}

GetApiPayload ==
    /\ \E target \in Targets, region_ \in {None, CallerRegion} :
           Do([name |-> "_get_api_payload", arg |-> target, region |-> region_])
    /\ UNCHANGED <<retry, stream, account, callers>>

----------------------------------------------------------------------------
(* The control plane changes on its own and through other callers.         *)

LandingZoneChange ==
    /\ env' = [env EXCEPT !.lz = IF @ = "IN_PROGRESS" THEN "COMPLETED"
                                 ELSE "IN_PROGRESS"]
    /\ UNCHANGED <<ct, cache, op, trace, result, retry, stream, account, callers>>

AccountChange ==
    /\ \E a \in AccountIds :
           env' = [env EXCEPT !.provisioned[a] =
                       IF @ = "UNDER_CHANGE" THEN "AVAILABLE" ELSE "UNDER_CHANGE"]
    /\ UNCHANGED <<ct, cache, op, trace, result, retry, stream, account, callers>>

Next ==
    \/ DriftMessages
    \/ GetOrganizationalUnitByName
    \/ IsDeployed
    \/ Busy
    \/ GetApiPayload
    \/ LandingZoneChange
    \/ AccountChange

Spec == Init /\ [][Next]_vars

(* The core accounts of the landing zone are read again and again.         *)
CoreAccounts ==
    /\ Do(Call("core_accounts", None))
    /\ UNCHANGED <<retry, stream, account, callers>>

NextCore ==
    \/ CoreAccounts
    \/ LandingZoneChange
    \/ AccountChange

SpecCore == Init /\ [][NextCore]_vars

----------------------------------------------------------------------------
(* create_account under its retry decorator.                               *)

(* One call of create_account, started `start` seconds after the first     *)
(* call began.  The catalog's answer to provision_product is any of        *)
(* Answers; the other calls of the attempt go through.                     *)
Attempt(r0, answer, waits) ==
    LET call == [name |-> "create_account", arg |-> r0.ou, answer |-> answer]
        x == Run(call, {})
        slept == settling_time * Count(x.trace, "sleep", "settling_time",
                                       "_register_org_ou_in_control_tower")
        calls == r0.calls + 1
        provisions == Count(x.trace, "servicecatalog", "provision_product",
                            "create_account")
    IN  /\ Finish(x, call)
        /\ \E w \in waits :
               LET start == r0.elapsed + w
                   now == Clock(start + slept + MinCallSeconds)
                   again == /\ x.err \in retry_on_exceptions
                            /\ retry_again(calls, now)
               IN  retry' = [pc |-> IF again THEN "waiting" ELSE "idle",
                             calls |-> calls, elapsed |-> now, started |-> start,
                             ou |-> r0.ou,
                             creating |-> r0.creating
                                 + (IF x.err = "OUCreating" THEN 1 ELSE 0),
                             provisions |-> r0.provisions + provisions,
                             last_answer |-> IF provisions > 0 THEN answer ELSE None]

Answers == {"200", "202", "CREATING", "ClientError"}

CreateAccount ==
    /\ retry.pc = "idle"
    /\ \E answer \in Answers : Attempt([idle_retry EXCEPT !.ou = "Dev"], answer, {0})
    /\ UNCHANGED <<stream, account, callers>>

CreateAccountRetry ==
    /\ retry.pc = "waiting"
    /\ \E answer \in Answers : Attempt(retry, answer, retry_sleeps(retry.elapsed))
    /\ UNCHANGED <<stream, account, callers>>

NextRetry ==
    \/ CreateAccount
    \/ CreateAccountRetry
    \/ LandingZoneChange
    \/ AccountChange

SpecRetry == Init /\ [][NextRetry]_vars

----------------------------------------------------------------------------
(* The paginated result stream, consumed one element at a time.            *)

Item(i, j) == (MaxItems + 1) * i + j

(* n pages of ks[1], ..., ks[n] elements, every page but the last with the *)
(* cursor of the next one, the last with none (`last` is None or "").      *)
Pages(ks, last) ==
    [i \in 1..Len(ks) |->
        [items |-> [j \in 1..ks[i] |-> Item(i, j)],
         next |-> IF i < Len(ks) THEN Cursor(i + 1) ELSE last]]

PageConfigs ==
    UNION {{Pages(ks, last) : ks \in [1..n -> 0..MaxItems], last \in {None, ""}} :
              n \in 1..MaxPages}

InitStream ==
    /\ env \in {Services("COMPLETED", [a \in AccountIds |-> "NONE"],
                          <<"Root", "Suspended", "Dev">>, {"Suspended", "Dev"}, p) :
                    p \in PageConfigs}
    /\ ct = ControlTower_init(env).ct
    /\ cache = <<>>
    /\ op = Call("__init__", None)
    /\ trace = ControlTower_init(env).trace
    /\ result = [err |-> NoErr, ret |-> None]
    /\ retry = idle_retry
    /\ stream = no_stream
    /\ account = no_account
    /\ callers = no_callers

(* Reading the accounts property: the gate, then a generator object.       *)
Accounts ==
    /\ ~stream.open
    /\ \E fails \in FailSets(Call("accounts", None), {}, MaxFails) :
           LET x == Run(Call("accounts", None), fails)
           IN  /\ Finish([x EXCEPT !.ret = None], Call("accounts", None))
               /\ stream' = IF Failed(x) THEN stream
                            ELSE [g |-> x.ret, open |-> TRUE, yielded |-> <<>>]
    /\ UNCHANGED <<retry, account, callers>>

(* Reading the organizational_units property.                              *)
OrganizationalUnits ==
    /\ ~stream.open
    /\ \E fails \in FailSets(Call("organizational_units", None), {}, MaxFails) :
           LET x == Run(Call("organizational_units", None), fails)
           IN  /\ Finish([x EXCEPT !.ret = None], Call("organizational_units", None))
               /\ stream' = IF Failed(x) THEN stream
                            ELSE [g |-> x.ret, open |-> TRUE, yielded |-> <<>>]
    /\ UNCHANGED <<retry, account, callers>>

(* _get_paginated_results called without object_group, as _update_data and *)
(* guard_rails do: calling a generator function runs none of its body.     *)
GetPaginatedResults ==
    /\ ~stream.open
    /\ stream' = [g |-> new_generator("getAvailableUpdates", FALSE),
                  open |-> TRUE, yielded |-> <<>>]
    /\ op' = Call("_get_paginated_results", None)
    /\ trace' = <<>>
    /\ result' = [err |-> NoErr, ret |-> None]
    /\ UNCHANGED <<env, ct, cache, retry, account, callers>>

(* next(generator): the events of the whole stream are kept in trace.      *)
StreamNext ==
    /\ stream.open
    /\ \E fails \in FailSets([name |-> "next", arg |-> stream.g], {}, MaxFails) :
           LET x == Run([name |-> "next", arg |-> stream.g], fails)
           IN  /\ env' = x.env
               /\ ct' = x.ct
               /\ cache' = x.cache
               /\ op' = Call("next", None)
               /\ trace' = trace \o x.trace
               /\ result' = [err |-> x.err,
                             ret |-> IF x.ret.stop THEN "StopIteration" ELSE "item"]
               /\ stream' = [stream EXCEPT
                                !.g = x.ret.g,
                                !.yielded = IF x.ret.stop THEN @
                                            ELSE @ \o x.ret.item]
    /\ UNCHANGED <<retry, account, callers>>

NextStream ==
    \/ Accounts
    \/ OrganizationalUnits
    \/ GetPaginatedResults
    \/ StreamNext

SpecStream == InitStream /\ [][NextStream]_vars

----------------------------------------------------------------------------
(* An account object and its delete(), which waits for the control plane.  *)

AccountsPage(ids) == <<[items |-> ids, next |-> None]>>

AccountIdSeq == [i \in 1..NumAccounts |-> i]

InitAccountObject(e) ==
    /\ env = e
    /\ ct = ControlTower_init(e).ct
    /\ cache = <<>>
    /\ op = Call("__init__", None)
    /\ trace = ControlTower_init(e).trace
    /\ result = [err |-> NoErr, ret |-> None]
    /\ retry = idle_retry
    /\ stream = no_stream
    /\ account = ControlTowerAccount_init(e.managedAccounts[1])
    /\ callers = no_callers

InitDelete ==
    \E p \in [AccountIds -> {"NONE", "AVAILABLE"}],
       m \in {<<"Root">>, <<"Root", "Suspended">>},
       scps \in {{"FullAWSAccess"}, {"FullAWSAccess", "Suspended"}} :
        InitAccountObject(
            [Services("COMPLETED", p, m, {m[i] : i \in 2..Len(m)},
                      AccountsPage(AccountIdSeq))
                EXCEPT !.policies = scps,
                       !.attached = [a \in AccountIds |-> {"FullAWSAccess"}]])

DoAccount(call) ==
    \E fails \in FailSets(call, {}, MaxFails) :
        /\ Finish(Run(call, fails), call)
        /\ account' = Run(call, fails).acct

Delete ==
    /\ account.pc = "idle"
    /\ DoAccount(Call("delete", None))
    /\ UNCHANGED <<retry, stream, callers>>

(* The sleep of delete() ends and the loop tests busy again.  trace keeps  *)
(* the events of delete() from its start, those of a round of the loop     *)
(* that ends in another sleep once.                                        *)
DeleteWokenWith(fails) ==
    /\ account.pc = "polling"
    /\ LET x == Run(Call("delete (woken)", None), fails)
       IN  /\ env' = x.env
           /\ ct' = x.ct
           /\ cache' = x.cache
           /\ op' = Call("delete", None)
           /\ trace' = IF x.acct.pc = "polling" THEN trace ELSE trace \o x.trace
           /\ result' = [err |-> x.err, ret |-> x.ret]
           /\ account' = x.acct
    /\ UNCHANGED <<retry, stream, callers>>

DeleteWoken ==
    \E fails \in FailSets(Call("delete (woken)", None), {}, MaxFails) :
        DeleteWokenWith(fails)

(* delete() goes on with the statement it is at; trace keeps its events    *)
(* from its start.                                                         *)
DeleteStep(call) ==
    \E fails \in FailSets(call, {}, MaxFails) :
        LET x == Run(call, fails)
        IN  /\ env' = x.env
            /\ ct' = x.ct
            /\ cache' = x.cache
            /\ op' = Call("delete", None)
            /\ trace' = trace \o x.trace
            /\ result' = [err |-> x.err, ret |-> x.ret]
            /\ account' = x.acct

(* The delete() that left its wait loop moves the account.                 *)
DeleteMove ==
    /\ account.pc = "moving"
    /\ DeleteStep(Call("delete (moving)", None))
    /\ UNCHANGED <<retry, stream, callers>>

DeleteAttach ==
    /\ account.pc = "attaching"
    /\ DeleteStep(Call("delete (attaching)", None))
    /\ UNCHANGED <<retry, stream, callers>>

DeleteDetach ==
    /\ account.pc = "detaching"
    /\ DeleteStep(Call("delete (detaching)", None))
    /\ UNCHANGED <<retry, stream, callers>>

(* The directory service starts or stops answering policy calls with a     *)
(* status that is not 200.                                                 *)
PolicyStatusChange ==
    /\ env' = [env EXCEPT !.policy_status = IF @ = 200 THEN 500 ELSE 200]
    /\ UNCHANGED <<ct, cache, op, trace, result, retry, stream, account, callers>>

NextDelete ==
    \/ Delete
    \/ DeleteWoken
    \/ DeleteMove
    \/ DeleteAttach
    \/ DeleteDetach
    \/ LandingZoneChange
    \/ AccountChange
    \/ PolicyStatusChange

SpecDelete == InitDelete /\ [][NextDelete]_vars

(* The thread that sleeps in delete() wakes up, and the transport does not *)
(* fail it every time it does.                                             *)
SpecDeleteFair == SpecDelete /\ WF_vars(DeleteWokenWith({}))

----------------------------------------------------------------------------
(* Policies are attached to and detached from an account.                  *)

PolicyNames == {"FullAWSAccess", suspended_ou_name}

AttachServiceControlPolicy ==
    /\ \E name \in PolicyNames : DoAccount(Call("attach_service_control_policy", name))
    /\ UNCHANGED <<retry, stream, callers>>

DetachServiceControlPolicy ==
    /\ \E name \in PolicyNames : DoAccount(Call("detach_service_control_policy", name))
    /\ UNCHANGED <<retry, stream, callers>>

NextPolicy ==
    \/ AttachServiceControlPolicy
    \/ DetachServiceControlPolicy
    \/ LandingZoneChange
    \/ AccountChange
    \/ PolicyStatusChange

SpecPolicy == InitDelete /\ [][NextPolicy]_vars

----------------------------------------------------------------------------
(* The instances of one process read the landing zone's status.  Of each   *)
(* instance the caller keeps the snapshot its last read came from and the  *)
(* instances that have read since; a read that raises is no read.          *)

InitStatus ==
    /\ env \in {Services(l, [a \in AccountIds |-> "NONE"], <<"Root">>, {}, no_pages) : l \in {"COMPLETED", "NOT_STARTED"}}
    /\ ct = ControlTower_init(env).ct
    /\ cache = <<>>
    /\ op = Call("__init__", None)
    /\ trace = ControlTower_init(env).trace
    /\ result = [err |-> NoErr, ret |-> None]
    /\ retry = idle_retry
    /\ stream = no_stream
    /\ account = no_account
    /\ callers = [i \in Instances |->
                     [ct |-> [ControlTower_init(env).ct EXCEPT !.id = i],
                      last |-> "unfetched", others |-> {}]]

Snapshots == LandingZoneStatuses \cup {None}

PropertyKey(name) ==
    CASE name = "status" -> "LandingZoneStatus"
      [] name = "percentage_complete" -> "PercentageComplete"
      [] name = "deploying_messages" -> "Messages"
      [] name = "region_metadata_list" -> "RegionMetadataList"

(* What a read of the property returns from a snapshot.                    *)
Reading(name, snapshot) ==
    IF name = "status" THEN snapshot ELSE Entry(PropertyKey(name), snapshot)

(* The snapshot a read of the property came from.                          *)
SnapshotOf(name, ret) == CHOOSE snapshot \in Snapshots : Reading(name, snapshot) = ret

Read(x, call) ==
    /\ env' = x.env
    /\ cache' = x.cache
    /\ op' = call
    /\ trace' = x.trace
    /\ result' = [err |-> x.err, ret |-> x.ret]
    /\ callers' = [i \in Instances |->
                      IF Failed(x) THEN [callers[i] EXCEPT !.ct = IF i = call.arg THEN x.ct ELSE @]
                      ELSE IF i = call.arg
                      THEN [ct |-> x.ct,
                            last |-> SnapshotOf(call.name, x.ret),
                            others |-> {}]
                      ELSE [callers[i] EXCEPT !.others = @ \cup {call.arg}]]

DoRead(call) ==
    \E fails \in FailSets(call, {}, MaxFails) : Read(Run(call, fails), call)

Status ==
    /\ \E i \in Instances : DoRead(Call("status", i))
    /\ UNCHANGED <<ct, retry, stream, account>>

PercentageComplete ==
    /\ \E i \in Instances : DoRead(Call("percentage_complete", i))
    /\ UNCHANGED <<ct, retry, stream, account>>

DeployingMessages ==
    /\ \E i \in Instances : DoRead(Call("deploying_messages", i))
    /\ UNCHANGED <<ct, retry, stream, account>>

RegionMetadataList ==
    /\ \E i \in Instances : DoRead(Call("region_metadata_list", i))
    /\ UNCHANGED <<ct, retry, stream, account>>

NextStatus ==
    \/ Status
    \/ PercentageComplete
    \/ DeployingMessages
    \/ RegionMetadataList
    \/ LandingZoneChange

SpecStatus == InitStatus /\ [][NextStatus]_vars

----------------------------------------------------------------------------
(* An account object whose properties are read, that is refreshed and      *)
(* updated while the backing services change.                              *)

InitAccount ==
    \E p \in [AccountIds -> {"NONE", "AVAILABLE"}], rec \in {None, "rec"} :
        InitAccountObject(
            [Services("COMPLETED", p, <<"Root", "Dev">>, {"Dev"},
                      AccountsPage(AccountIdSeq))
                EXCEPT !.managedAccounts[1].ParentOrganizationalUnitId = "Dev",
                       !.lastRecordId[1] = rec])

ReadAccount ==
    /\ \E name \in {"landing_zone_version", "service_catalog_status", "sso_user_email"} :
           DoAccount(Call(name, None))
    /\ UNCHANGED <<retry, stream, callers>>

Refresh ==
    /\ DoAccount(Call("_refresh", None))
    /\ UNCHANGED <<retry, stream, callers>>

(* Somebody else moves the account.                                        *)
AccountDataChange ==
    /\ env' = [env EXCEPT !.managedAccounts[1].ParentOrganizationalUnitId =
                              IF @ = "Dev" THEN "Root" ELSE "Dev"]
    /\ UNCHANGED <<ct, cache, op, trace, result, retry, stream, account, callers>>

(* The account leaves the listing of managed accounts, or returns to it.   *)
AccountListingChange ==
    /\ env' = [env EXCEPT !.pages = IF @ = AccountsPage(AccountIdSeq)
                                    THEN AccountsPage(<<>>)
                                    ELSE AccountsPage(AccountIdSeq)]
    /\ UNCHANGED <<ct, cache, op, trace, result, retry, stream, account, callers>>

NextAccount ==
    \/ ReadAccount
    \/ Refresh
    \/ LandingZoneChange
    \/ AccountChange
    \/ AccountDataChange
    \/ AccountListingChange

SpecAccount == InitAccount /\ [][NextAccount]_vars

----------------------------------------------------------------------------
(* OUs are registered and accounts created in OUs that may not be managed  *)
(* yet, with a transport that may fail.                                    *)

InitOU ==
    /\ \E o \in {{}, {"Dev"}} :
           env = Services("COMPLETED", [a \in AccountIds |-> "NONE"], <<"Root">>, o,
                          no_pages)
    /\ ct = ControlTower_init(env).ct
    /\ cache = <<>>
    /\ op = Call("__init__", None)
    /\ trace = ControlTower_init(env).trace
    /\ result = [err |-> NoErr, ret |-> None]
    /\ retry = idle_retry
    /\ stream = no_stream
    /\ account = no_account
    /\ callers = no_callers

RegisterOrganizationsOu ==
    /\ Do(Call("register_organizations_ou", "Dev"))
    /\ UNCHANGED <<retry, stream, account, callers>>

(* An attempt of create_account that the retry decorator does not repeat.  *)
CreateAccountAttempt ==
    /\ \E answer \in {"200", "ClientError"} :
           Do([name |-> "create_account", arg |-> "Dev", answer |-> answer])
    /\ UNCHANGED <<retry, stream, account, callers>>

NextOU ==
    \/ RegisterOrganizationsOu
    \/ CreateAccountAttempt
    \/ LandingZoneChange
    \/ AccountChange

SpecOU == InitOU /\ [][NextOU]_vars

----------------------------------------------------------------------------
(* OUs are created, registered and deleted, with a transport that may      *)
(* fail.                                                                   *)

CreateOrganizationalUnit ==
    /\ Do(Call("create_organizational_unit", "Dev"))
    /\ UNCHANGED <<retry, stream, account, callers>>

DeleteOrganizationalUnit ==
    /\ Do(Call("delete_organizational_unit", "Dev"))
    /\ UNCHANGED <<retry, stream, account, callers>>

NextDirectory ==
    \/ CreateOrganizationalUnit
    \/ RegisterOrganizationsOu
    \/ DeleteOrganizationalUnit
    \/ LandingZoneChange

SpecDirectory == InitOU /\ [][NextDirectory]_vars

----------------------------------------------------------------------------
(* Callers of one process, each with its ControlTower instance, create an  *)
(* OU each: the decorator's checks and the method it wraps are a step      *)
(* each.                                                                   *)

InitCallers ==
    /\ env = Services("COMPLETED", [a \in AccountIds |-> "NONE"], <<"Root">>, {},
                      no_pages)
    /\ ct = ControlTower_init(env).ct
    /\ cache = <<>>
    /\ op = Call("__init__", None)
    /\ trace = ControlTower_init(env).trace
    /\ result = [err |-> NoErr, ret |-> None]
    /\ retry = idle_retry
    /\ stream = no_stream
    /\ account = no_account
    /\ callers = [c \in Callers |->
                     [pc |-> "idle", ct |-> [ControlTower_init(env).ct EXCEPT !.id = c],
                      trace |-> <<>>, result |-> [err |-> NoErr, ret |-> None]]]

(* The context of a call of caller c.                                      *)
CtxOf(c) == [Ctx({}) EXCEPT !.ct = callers[c].ct]

OUOf(c) == IF c = 1 THEN "Dev" ELSE "Suspended"

Stepped(c, x, pc) ==
    /\ env' = x.env
    /\ cache' = x.cache
    /\ callers' = [callers EXCEPT ![c] = [pc |-> pc, ct |-> x.ct, trace |-> x.trace,
                                          result |-> [err |-> x.err, ret |-> x.ret]]]
    /\ UNCHANGED <<ct, op, trace, result, retry, stream, account>>

(* The decorator of create_organizational_unit runs its checks.            *)
Gate(c) ==
    /\ callers[c].pc = "idle"
    /\ \E x \in {validate_availability(CtxOf(c), "create_organizational_unit")} :
           Stepped(c, x, IF Failed(x) THEN "idle" ELSE "body")

(* The method the decorator let through creates the OU in the directory.   *)
Body(c) ==
    /\ callers[c].pc = "body"
    /\ \E x \in {create_organizational_unit_directory(root_ou_attribute(CtxOf(c)),
                                                     OUOf(c))} :
           Stepped(c, x, IF Failed(x) \/ x.ret = "False" THEN "idle" ELSE "registering")

(* The method goes on to register the OU it created.                       *)
Register(c) ==
    /\ callers[c].pc = "registering"
    /\ \E x \in {create_organizational_unit_register(Return(CtxOf(c), "created"),
                                                    OUOf(c))} :
           Stepped(c, x, "idle")

NextCallers ==
    \/ \E c \in Callers : Gate(c)
    \/ \E c \in Callers : Body(c)
    \/ \E c \in Callers : Register(c)
    \/ LandingZoneChange
    \/ AccountChange

SpecCallers == InitCallers /\ [][NextCallers]_vars

----------------------------------------------------------------------------
(* An account object that is asked for its pending update and updated      *)
(* while the landing zone changes.                                         *)

Versions == {<<3, 0>>, <<3, 1>>}

InitUpdate ==
    \E v \in Versions, own \in Versions \cup {<<3, 1, 0>>} :
        InitAccountObject(
            [Services("COMPLETED", [a \in AccountIds |-> "AVAILABLE"],
                      <<"Root", "Dev">>, {"Dev"}, AccountsPage(AccountIdSeq))
                EXCEPT !.version = v,
                       !.managedAccounts[1].DeployedLandingZoneVersion = own,
                       !.managedAccounts[1].ParentOrganizationalUnitId = "Dev"])

HasAvailableUpdate ==
    /\ DoAccount(Call("has_available_update", None))
    /\ UNCHANGED <<retry, stream, callers>>

Update ==
    /\ DoAccount(Call("update", None))
    /\ UNCHANGED <<retry, stream, callers>>

(* The landing zone is brought to a later version.                         *)
LandingZoneUpgrade ==
    /\ env.version = <<3, 0>>
    /\ env' = [env EXCEPT !.version = <<3, 1>>]
    /\ UNCHANGED <<ct, cache, op, trace, result, retry, stream, account, callers>>

NextUpdate ==
    \/ HasAvailableUpdate
    \/ Update
    \/ LandingZoneChange
    \/ AccountChange
    \/ LandingZoneUpgrade

SpecUpdate == InitUpdate /\ [][NextUpdate]_vars

----------------------------------------------------------------------------
(* Properties of the availability gate and the request builder (Spec).     *)

GatedOps == {"drift_messages", "get_organizational_unit_by_name"}

DeploymentQuery == <<"session.post", "getLandingZoneStatus", "is_deployed">>

DeploymentQueries(t) == Len(SelectSeq(t, LAMBDA e : e = DeploymentQuery))

(* C1: a gated operation called while the landing zone is NOT_STARTED      *)
(* fails with ControlTowerNotDeployed (ServiceCallFailed when the          *)
(* deployment query itself fails); once is_deployed has evaluated to       *)
(* false the only backing-service call of the operation is the deployment  *)
(* query, busy is not evaluated and no wrapped body runs.                  *)
C1_NotDeployedRejected ==
    op.name \in GatedOps =>
        /\ env.lz = "NOT_STARTED" =>
               result.err \in {"ControlTowerNotDeployed", "ServiceCallFailed"}
        /\ Has(trace, "is_deployed", "False", "queried") =>
               /\ result.err = "ControlTowerNotDeployed"
               /\ NetworkCalls(trace) = <<DeploymentQuery>>
               /\ ~HasKind(trace, "busy")
               /\ ~HasKind(trace, "method")

C1_Witness ==
    /\ op.name = "drift_messages"
    /\ env.lz = "NOT_STARTED"
    /\ Has(trace, "is_deployed", "False", "queried")
    /\ result.err = "ControlTowerNotDeployed"

(* The wrapped body whose event is t[i] runs right after a busy check that *)
(* evaluated to false, which follows an is_deployed check of the same      *)
(* invocation that evaluated to true.                                      *)
GatePassed(t, i) ==
    /\ i > 1
    /\ t[i - 1] = <<"busy", "False", "evaluated">>
    /\ \E a \in 1..(i - 1), c \in 1..(i - 1) :
           /\ a < c - 1
           /\ t[a] = <<"validate_availability", t[i][2], "is_deployed">>
           /\ t[c - 1][1] = "is_deployed"
           /\ t[c - 1][2] = "True"
           /\ t[c] = <<"validate_availability", t[i][2], "busy">>
           /\ \A k \in a..(i - 1) :
                  /\ t[k][1] # "method"
                  /\ t[k][1] = "validate_availability" => k \in {a, c}

(* C2: in a gated operation a busy check that evaluates to true is the     *)
(* last thing that happens (no call of a body follows) and the operation   *)
(* fails with ControlTowerBusy; every wrapped body that runs does so after *)
(* the is_deployed check and then the busy check of its invocation passed. *)
C2_BusyRejected ==
    op.name \in GatedOps =>
        /\ \A i \in 1..Len(trace) :
               trace[i] = <<"busy", "True", "evaluated">> =>
                   /\ i = Len(trace)
                   /\ result.err = "ControlTowerBusy"
        /\ result.err = "ControlTowerBusy" => ~HasKind(trace, "method")
        /\ \A i \in 1..Len(trace) : trace[i][1] = "method" => GatePassed(trace, i)

C2_Witness ==
    /\ op.name = "drift_messages"
    /\ ct.is_deployed = "True"
    /\ Has(trace, "busy", "True", "evaluated")
    /\ result.err = "ControlTowerBusy"

C2_WitnessBody ==
    /\ op.name = "get_organizational_unit_by_name"
    /\ Has(trace, "method", "organizational_units", "body")
    /\ result.err = NoErr

(* C3: building a request for a target outside supported_targets raises    *)
(* UnsupportedTarget and nothing else happens: no backing-service call, no *)
(* region or deployment lookup.                                            *)
C3_UnsupportedTargetRejected ==
    (op.name = "_get_api_payload" /\ op.arg \notin supported_targets) =>
        /\ result.err = "UnsupportedTarget"
        /\ NetworkCalls(trace) = <<>>
        /\ ~HasKind(trace, "is_deployed")

C3_Witness ==
    /\ op.name = "_get_api_payload"
    /\ op.arg \notin supported_targets
    /\ op.region = None
    /\ ct.is_deployed = "False"
    /\ result.err = "UnsupportedTarget"

(* C4: the deployment-status query is issued at most once in an instance's *)
(* lifetime: at most once by the constructor, which always leaves a memo,  *)
(* and never by an operation after it.                                     *)
C4_DeploymentQueriedOnce ==
    /\ DeploymentQueries(trace) <= 1
    /\ op.name # "__init__" => DeploymentQueries(trace) = 0

BusyNow(e) ==
    \/ e.lz = "IN_PROGRESS"
    \/ \E a \in AccountIds : e.provisioned[a] = "UNDER_CHANGE"

(* No status request of the instance so far was failed by the transport.  *)
StatusAnswered(c) == \A i \in 1..Len(c) : c[i][2] # None

(* C5: busy is not cached: every evaluation of busy, none of whose calls   *)
(* the transport failed, is computed from the control plane's state at     *)
(* that moment: true iff the landing-zone status is IN_PROGRESS or some    *)
(* account is UNDER_CHANGE.                                                *)
C5_BusyRecomputed ==
    [][(/\ op'.name = "busy"
        /\ env' = env
        /\ result'.err = NoErr
        /\ StatusAnswered(cache')) =>
           (result'.ret = "True" <=> BusyNow(env'))]_vars

----------------------------------------------------------------------------
(* Properties of create_account under its retry decorator (SpecRetry).     *)
(* retry.creating counts the attempts that ended with OUCreating,          *)
(* retry.provisions the provision_product calls of all attempts and        *)
(* retry.last_answer is the catalog's answer to the last of them.          *)

WindowOpen ==
    /\ retry.calls < max_calls_total
    /\ retry.elapsed <= retry_window_after_first_call_in_seconds

C9_OnlyOUCreatingRetried ==
    (op.name = "create_account" /\ result.err # "OUCreating") => retry.pc = "idle"

C9_Witness ==
    /\ op.name = "create_account"
    /\ retry.calls >= 2
    /\ result.err = "ControlTowerBusy"
    /\ retry.pc = "idle"

C9_WitnessClientError ==
    /\ op.name = "create_account"
    /\ retry.calls >= 2
    /\ result.err = "ClientError"
    /\ retry.last_answer = "ClientError"
    /\ retry.pc = "idle"

C10_WitnessWindow ==
    /\ op.name = "create_account"
    /\ retry.calls < max_calls_total
    /\ retry.elapsed > retry_window_after_first_call_in_seconds
    /\ retry.pc = "idle"
    /\ result.err = "OUCreating"

----------------------------------------------------------------------------
(* Properties of the paginated result stream (SpecStream).                 *)

RECURSIVE Flatten(_, _)
(* The pages' collections one after the other; without object_group the    *)
(* pages themselves.                                                       *)
Flatten(pages, object_group) ==
    IF pages = <<>> THEN <<>>
    ELSE (IF object_group THEN Head(pages).items ELSE <<Head(pages)>>)
         \o Flatten(Tail(pages), object_group)

IsPrefix(s, t) == Len(s) <= Len(t) /\ s = SubSeq(t, 1, Len(s))

PageRequests(t, target) ==
    Len(SelectSeq(t, LAMBDA e : e = <<"session.post", target, "_get_partial_response">>))

(* The cursors of the page requests, in the order they were sent.          *)
Cursors(t) ==
    LET r == SelectSeq(t, LAMBDA e : e[1] = "NextToken")
    IN  [i \in 1..Len(r) |-> r[i][2]]

FetchFailed(t) == Has(t, "response", "not ok", "_get_partial_response")

(* C6: over n pages, each but the last with the cursor of the next, the    *)
(* stream yields the concatenation of the pages' collections in page       *)
(* order, every element once: what was yielded so far is a prefix of it,   *)
(* the requests sent so far are those of pages 1, 2, ... in order, at most *)
(* n, and a stream that ended without a failed fetch yielded all of it     *)
(* with exactly n requests.                                                *)
C6_EveryItemOnceInPageOrder ==
    stream.open =>
        LET pages == ServerPages(env, stream.g.target)
            every == Flatten(pages, stream.g.object_group)
            requests == PageRequests(trace, stream.g.target)
        IN  /\ IsPrefix(stream.yielded, every)
            /\ requests <= Len(pages)
            /\ Cursors(trace) = [i \in 1..requests |->
                                    IF i = 1 THEN None ELSE Cursor(i)]
            /\ (stream.g.state = "finished" /\ ~FetchFailed(trace)) =>
                   /\ stream.yielded = every
                   /\ requests = Len(pages)

C6_Witness ==
    /\ stream.open
    /\ stream.g.state = "finished"
    /\ stream.g.object_group
    /\ ~FetchFailed(trace)
    /\ Len(env.pages) = 3
    /\ \A i \in 1..3 : Len(env.pages[i].items) = MaxItems
    /\ Len(stream.yielded) = 3 * MaxItems
    /\ PageRequests(trace, stream.g.target) = 3

(* A step of the stream in which the transport fails a page fetch.         *)
FetchFails ==
    /\ op'.name = "next"
    /\ Len(trace') > Len(trace)
    /\ FetchFailed(SubSeq(trace', Len(trace) + 1, Len(trace')))

(* C7 as stated: a page fetch the transport fails raises ServiceCallFailed *)
(* constructed with the request body.                                      *)
C7_FetchRaisesServiceCallFailed ==
    [][FetchFails =>
           /\ result'.err = "ServiceCallFailed"
           /\ trace'[Len(trace')][1] = "ServiceCallFailed"
           /\ trace'[Len(trace')][2] = "payload"]_vars

(* C7 amended: a page fetch the transport fails raises ValueError          *)
(* constructed with the text of the response; the failed request is the    *)
(* last the stream sends, nothing is yielded by that step and the stream   *)
(* is finished.                                                            *)
C7_FetchRaisesValueError ==
    [][FetchFails =>
           /\ result'.err = "ValueError"
           /\ trace'[Len(trace')] =
                  <<"ValueError", "response.text", "_get_partial_response">>
           /\ trace'[Len(trace') - 1] =
                  <<"response", "not ok", "_get_partial_response">>
           /\ stream'.yielded = stream.yielded
           /\ stream'.g.state = "finished"]_vars

C7_Witness ==
    /\ op.name = "next"
    /\ result.err = "ValueError"
    /\ Len(stream.yielded) > 0
    /\ trace[Len(trace)] = <<"ValueError", "response.text", "_get_partial_response">>

----------------------------------------------------------------------------
(* Properties of ControlTowerAccount.delete (SpecDelete, SpecDeleteFair).  *)

Terminate == <<"servicecatalog", "terminate_provisioned_product", "_terminate">>

MoveAccount == <<"organizations", "move_account", "delete">>

DeleteEffects ==
    <<Terminate, MoveAccount,
      <<"organizations", "attach_policy", suspended_ou_name>>,
      <<"organizations", "detach_policy", "FullAWSAccess">>>>

(* The terminate, move, attach and detach calls of a trace, in order.      *)
Effects(t) ==
    SelectSeq(t, LAMBDA e : e[2] \in {"terminate_provisioned_product", "move_account",
                                      "attach_policy", "detach_policy"})

(* The event before t[i] that is the latest evaluation of busy.            *)
LastBusy(t, i) ==
    LET b == {k \in 1..(i - 1) : t[k][1] = "busy"}
    IN  IF b = {} THEN 0 ELSE CHOOSE k \in b : \A j \in b : j <= k

DeleteCompleted ==
    /\ op.name = "delete"
    /\ account.pc = "idle"
    /\ result.err = NoErr

(* C11: the terminate, move, attach and detach calls of a delete() are, at *)
(* every point, the beginning of: terminate, move, attach the policy named *)
(* after the suspended OU, detach FullAWSAccess; a delete() that completes *)
(* issued all four; and a move is issued only after busy was evaluated     *)
(* since the terminate, its latest evaluation being false.                 *)
C11_DecommissionOrder ==
    op.name = "delete" =>
        /\ IsPrefix(Effects(trace), DeleteEffects)
        /\ DeleteCompleted => Effects(trace) = DeleteEffects
        /\ \A i \in 1..Len(trace) :
               trace[i] = MoveAccount =>
                   /\ LastBusy(trace, i) # 0
                   /\ trace[LastBusy(trace, i)][2] = "False"
                   /\ \E k \in 1..LastBusy(trace, i) : trace[k] = Terminate

C11_Witness ==
    /\ DeleteCompleted
    /\ Has(trace, "sleep", "_info_polling_interval", "delete")
    /\ Effects(trace) = DeleteEffects
    /\ env.attached[1] = {suspended_ou_name}
    /\ env.managedAccounts[1].ParentOrganizationalUnitId = suspended_ou_name

SuspendedOUExists ==
    \E i \in 1..Len(env.managedOUs) : env.managedOUs[i] = suspended_ou_name

(* C12: a delete() while no managed OU has the suspended OU's name issues  *)
(* no terminate, move, attach or detach call, never completes, and leaves  *)
(* the account where it is with the policies it has; it raises             *)
(* NoSuspendedOU unless the gate or the transport failed the lookup.       *)
C12_NoSuspendedOU ==
    (op.name = "delete" /\ ~SuspendedOUExists) =>
        /\ Effects(trace) = <<>>
        /\ account.pc = "idle"
        /\ result.err \in {"NoSuspendedOU", "ControlTowerBusy", "ClientError",
                           "ValueError"}
        /\ (~FetchFailed(trace) /\ result.err \notin {"ControlTowerBusy", "ClientError"})
               => result.err = "NoSuspendedOU"
        /\ account.service_catalog_data = unresolved
        /\ \A a \in AccountIds :
               /\ env.attached[a] = {"FullAWSAccess"}
               /\ env.managedAccounts[a].ParentOrganizationalUnitId = "Root"

C12_Witness ==
    /\ op.name = "delete"
    /\ ~SuspendedOUExists
    /\ result.err = "NoSuspendedOU"
    /\ env.provisioned[1] = "AVAILABLE"

(* C13: if from some point on the landing zone is not IN_PROGRESS and no   *)
(* account is UNDER_CHANGE, a delete() that waits leaves its wait loop for *)
(* good; and a delete() that left the loop and completed issued the move.  *)
C13_WaitEnds ==
    /\ <>[](~BusyNow(env)) => <>[](account.pc # "polling")
    /\ [](DeleteCompleted => Has(trace, "organizations", "move_account", "delete"))

C13_Witness ==
    /\ DeleteCompleted
    /\ ~BusyNow(env)
    /\ Has(trace, "sleep", "_info_polling_interval", "delete")
    /\ Has(trace, "organizations", "move_account", "delete")

----------------------------------------------------------------------------
(* The tiers of an account object.                                         *)

Search == <<"servicecatalog", "search_provisioned_products", "_service_catalog_data">>

Describe == <<"servicecatalog", "describe_record", "_record_data">>

(* The step is a call on the objects, not a change of the services.        *)
Called ==
    <<ct, cache, op, trace, result, account>>' # <<ct, cache, op, trace, result, account>>

Resolved(tier) == tier.resolved # None

(* The trace holds a search for the account's catalog record or a request  *)
(* for its workflow record.                                                *)
CatalogCalled(t) ==
    \/ Has(t, Search[1], Search[2], Search[3])
    \/ Has(t, Describe[1], Describe[2], Describe[3])

(* C14: constructing the account object issues no catalog call and leaves  *)
(* tiers 2 and 3 unresolved; no call issues more than one search or more   *)
(* than one describe; reading tier 1 and enumerating the accounts (as      *)
(* _refresh does) issue neither; a call on an object whose tier 2 (tier 3) *)
(* is resolved issues no search (describe); and a resolved tier becomes    *)
(* unresolved only by a _refresh.                                          *)
C14_LazyTiers ==
    /\ (op.name = "__init__" =>
            /\ ~Resolved(account.service_catalog_data)
            /\ ~Resolved(account.record_data)
            /\ ~CatalogCalled(trace))
    /\ [][Called =>
            /\ Count(trace', Search[1], Search[2], Search[3]) <= 1
            /\ Count(trace', Describe[1], Describe[2], Describe[3]) <= 1
            /\ op'.name \in {"landing_zone_version", "_refresh"} =>
                   ~CatalogCalled(trace')
            /\ Resolved(account.service_catalog_data) =>
                   /\ ~Has(trace', Search[1], Search[2], Search[3])
                   /\ ~Resolved(account'.service_catalog_data) => op'.name = "_refresh"
            /\ Resolved(account.record_data) =>
                   /\ ~Has(trace', Describe[1], Describe[2], Describe[3])
                   /\ ~Resolved(account'.record_data) => op'.name = "_refresh"]_vars

C14_Witness ==
    /\ op.name = "sso_user_email"
    /\ account.service_catalog_data.resolved = "record"
    /\ account.record_data.resolved = "record"
    /\ result.ret = "OutputValue"
    /\ ~CatalogCalled(trace)

(* C15: a search the catalog answers without a record for the account      *)
(* raises nothing, leaves the empty record in tier 2 and the property read *)
(* is None; with the empty record in tier 2 a read issues no search and no *)
(* describe and is None, whatever the catalog holds by then.               *)
C15_EmptyRecordMemoised ==
    [][(Called /\ op'.name \in {"service_catalog_status", "sso_user_email"}) =>
          /\ (/\ Has(trace', Search[1], Search[2], Search[3])
              /\ env.provisioned[account.data.AccountId] = "NONE"
              /\ result'.err # "ClientError") =>
                 /\ result'.err = NoErr
                 /\ result'.ret = None
                 /\ account'.service_catalog_data = empty_record
          /\ account.service_catalog_data = empty_record =>
                 /\ ~CatalogCalled(trace')
                 /\ result'.err = NoErr
                 /\ result'.ret = None
                 /\ account'.service_catalog_data = empty_record]_vars

C15_Witness ==
    /\ op.name = "service_catalog_status"
    /\ account.service_catalog_data = empty_record
    /\ ~CatalogCalled(trace)
    /\ result.ret = None
    /\ env.provisioned[1] = "AVAILABLE"

(* C16: tier 1 and a resolved tier 2 or 3 of an account object change only *)
(* in a _refresh that succeeds; such a _refresh leaves in tier 1 what the  *)
(* listing holds for the account's id and tiers 2 and 3 unresolved; and a  *)
(* read reports what the object holds, not what the services hold.         *)
C16_OnlyRefreshChanges ==
    [][/\ (\/ account'.data # account.data
           \/ Resolved(account.service_catalog_data)
                  /\ account'.service_catalog_data # account.service_catalog_data
           \/ Resolved(account.record_data)
                  /\ account'.record_data # account.record_data) =>
              (op'.name = "_refresh" /\ result'.err = NoErr)
       /\ (Called /\ op'.name = "_refresh" /\ result'.err = NoErr) =>
              /\ account'.data = env.managedAccounts[account.data.AccountId]
              /\ account'.service_catalog_data = unresolved
              /\ account'.record_data = unresolved
       /\ (Called /\ op'.name = "landing_zone_version") =>
              result'.ret = account.data.DeployedLandingZoneVersion
       /\ (/\ Called
           /\ op'.name = "service_catalog_status"
           /\ Resolved(account.service_catalog_data)) =>
              result'.ret = account.service_catalog_data.Status]_vars

C16_Witness ==
    /\ op.name = "_refresh"
    /\ result.err = NoErr
    /\ account.data.ParentOrganizationalUnitId = "Root"
    /\ account.data = env.managedAccounts[1]
    /\ ~Resolved(account.service_catalog_data)

----------------------------------------------------------------------------
(* C35: a _refresh whose lookup fails (the gate raises ControlTowerBusy or *)
(* ControlTowerNotDeployed or fails on a client call of its own, the fetch *)
(* of a page of the listing fails, or                                      *)
(* the listing no longer holds the account) raises and leaves tier 1 and   *)
(* the memoised tiers 2 and 3 of the object as they were; it has failed    *)
(* whenever the listing it asked for did not hold the account.             *)
ListAccounts == <<"session.post", "listManagedAccounts", "_get_partial_response">>

C35_RefreshAllOrNothing ==
    [][(Called /\ op'.name = "_refresh") =>
           /\ result'.err # NoErr => account' = account
           /\ result'.err \in {NoErr, "ControlTowerBusy", "ControlTowerNotDeployed",
                                "ClientError", "ValueError", "AttributeError"}
           /\ result'.err = "AttributeError" =>
                  /\ Has(trace', ListAccounts[1], ListAccounts[2], ListAccounts[3])
                  /\ env.pages = AccountsPage(<<>>)
           /\ result'.err = "ValueError" =>
                  trace'[Len(trace')] = <<"ValueError", "response.text",
                                          "_get_partial_response">>
           /\ result'.err \in {"ControlTowerBusy", "ControlTowerNotDeployed",
                                "ClientError"} =>
                  ~Has(trace', ListAccounts[1], ListAccounts[2], ListAccounts[3])
           /\ env.pages = AccountsPage(<<>>) => result'.err # NoErr]_vars

(* A _refresh of an object with resolved tiers 2 and 3 fails because the   *)
(* account is no longer listed.                                            *)
C35_Witness ==
    /\ op.name = "_refresh"
    /\ result.err = "AttributeError"
    /\ Resolved(account.service_catalog_data)
    /\ Resolved(account.record_data)
    /\ account.data.ParentOrganizationalUnitId # env.managedAccounts[1].ParentOrganizationalUnitId

(* A _refresh fails on the gate while the object holds resolved tiers.     *)
C35_WitnessBusy ==
    /\ op.name = "_refresh"
    /\ result.err = "ControlTowerBusy"
    /\ Resolved(account.service_catalog_data)
    /\ account.data.ParentOrganizationalUnitId # env.managedAccounts[1].ParentOrganizationalUnitId

(* A _refresh fails on the fetch of the listing's page.                    *)
C35_WitnessFetch ==
    /\ op.name = "_refresh"
    /\ result.err = "ValueError"
    /\ Resolved(account.service_catalog_data)

----------------------------------------------------------------------------
(* The pending update of an account and update().                          *)

(* The landing-zone version the ControlTower object reports when asked     *)
(* now: the one it holds, or the control plane's when it holds none.       *)
ReportedVersion ==
    IF Resolved(ct.update_data) THEN ct.update_data.UserLandingZoneVersion
    ELSE env.version

UpdateProvisionedProduct == <<"servicecatalog", "update_provisioned_product", "update">>

PendingUpdate ==
    float(account.data.DeployedLandingZoneVersion) < float(ReportedVersion)

(* The status snapshot the object holds, if any, is the landing zone's     *)
(* status.                                                                 *)
SnapshotCurrent == \A i \in 1..Len(cache) : cache[i][2] = env.lz

(* C18 as stated: an update() of an object whose status snapshot is        *)
(* current, none of whose calls the transport fails, returns True without  *)
(* an update call when no update is pending, raises ControlTowerBusy       *)
(* without an update call when one is pending and the control plane is     *)
(* busy, and issues exactly one update call otherwise.                     *)
C18_Update ==
    [][(/\ Called
        /\ op'.name = "update"
        /\ SnapshotCurrent
        /\ ~HasKind(trace', "response")
        /\ result'.err \notin {"ClientError", "ValueError"}) =>
           /\ ~PendingUpdate =>
                  /\ result'.err = NoErr
                  /\ result'.ret = "True"
                  /\ Count(trace', UpdateProvisionedProduct[1],
                           UpdateProvisionedProduct[2], UpdateProvisionedProduct[3]) = 0
           /\ (PendingUpdate /\ BusyNow(env)) =>
                  /\ result'.err = "ControlTowerBusy"
                  /\ Count(trace', UpdateProvisionedProduct[1],
                           UpdateProvisionedProduct[2], UpdateProvisionedProduct[3]) = 0
           /\ (PendingUpdate /\ ~BusyNow(env)) =>
                  Count(trace', UpdateProvisionedProduct[1],
                        UpdateProvisionedProduct[2], UpdateProvisionedProduct[3]) = 1]_vars

----------------------------------------------------------------------------
(* OU setup in create_account and the registration of an OU.               *)

Managed(e, name) == \E i \in 1..Len(e.managedOUs) : e.managedOUs[i] = name

CreateOU == <<"organizations", "create_organizational_unit", "create_organizational_unit">>

ManageOU ==
    <<"session.post", "manageOrganizationalUnit", "_register_org_ou_in_control_tower">>

Settle == <<"sleep", "settling_time", "_register_org_ou_in_control_tower">>

ProvisionProduct == <<"servicecatalog", "provision_product", "create_account">>

(* C19: an attempt of create_account for an OU that is not managed asks    *)
(* the directory to create it before anything is provisioned; it submits a *)
(* provisioning request only if the OU's registration was answered ok and  *)
(* settled, the OU being managed from then on; and an attempt that asked   *)
(* for the OU's creation without settling submits none and, unless it      *)
(* raises, returns False.  For a managed OU nothing is created or          *)
(* registered.                                                             *)
C19_FailsClosed ==
    [][(Called /\ op'.name = "create_account") =>
          /\ (~Managed(env, op'.arg) /\ Has(trace', ProvisionProduct[1],
                                            ProvisionProduct[2], ProvisionProduct[3])) =>
                 /\ Has(trace', CreateOU[1], CreateOU[2], CreateOU[3])
                 /\ Has(trace', ManageOU[1], ManageOU[2], ManageOU[3])
                 /\ ~Has(trace', "response", "not ok", ManageOU[3])
                 /\ Has(trace', Settle[1], Settle[2], Settle[3])
                 /\ Managed(env', op'.arg)
          /\ (/\ Has(trace', CreateOU[1], CreateOU[2], CreateOU[3])
              /\ ~Has(trace', Settle[1], Settle[2], Settle[3])) =>
                 /\ ~Has(trace', ProvisionProduct[1], ProvisionProduct[2],
                         ProvisionProduct[3])
                 /\ result'.ret # "True"
                 /\ result'.err = NoErr => result'.ret = "False"
                 /\ env'.provisioned = env.provisioned
          /\ Managed(env, op'.arg) =>
                 /\ ~Has(trace', CreateOU[1], CreateOU[2], CreateOU[3])
                 /\ ~Has(trace', ManageOU[1], ManageOU[2], ManageOU[3])]_vars

C19_Witness ==
    /\ op.name = "create_account"
    /\ result = [err |-> NoErr, ret |-> "False"]
    /\ Has(trace, CreateOU[1], CreateOU[2], CreateOU[3])
    /\ Has(trace, "response", "not ok", ManageOU[3])
    /\ "Dev" \in env.orgOUs
    /\ ~Managed(env, "Dev")
    /\ \A a \in AccountIds : env.provisioned[a] = "NONE"

(* C20: register_organizations_ou for a name that is a managed OU posts no *)
(* manageOrganizationalUnit request, does not sleep, leaves the services   *)
(* as they are and, unless the gate or the transport fails the lookup,     *)
(* returns True.                                                           *)
C20_RegistrationIdempotent ==
    [][(Called /\ op'.name = "register_organizations_ou" /\ Managed(env, op'.arg)) =>
          /\ ~Has(trace', ManageOU[1], ManageOU[2], ManageOU[3])
          /\ ~HasKind(trace', "sleep")
          /\ env' = env
          /\ result'.err \in {NoErr, "ControlTowerBusy", "ValueError", "ClientError"}
          /\ result'.err = NoErr => result'.ret = "True"
          /\ (/\ ~BusyNow(env)
              /\ SnapshotCurrent
              /\ ~HasKind(trace', "response")
              /\ result'.err # "ClientError") =>
                 result'.err = NoErr]_vars

C20_Witness ==
    /\ op.name = "register_organizations_ou"
    /\ Managed(env, op.arg)
    /\ result = [err |-> NoErr, ret |-> "True"]
    /\ ~Has(trace, ManageOU[1], ManageOU[2], ManageOU[3])
    /\ ~HasKind(trace, "sleep")

----------------------------------------------------------------------------
(* The managed OUs and the directory's.                                    *)

Deregister ==
    <<"session.post", "deregisterOrganizationalUnit", "delete_organizational_unit">>

DeleteOU == <<"organizations", "delete_organizational_unit", "delete_organizational_unit">>

(* The place of the first event e in t, 0 without one.                     *)
First(t, e) ==
    IF \E i \in 1..Len(t) : t[i] = e
    THEN CHOOSE i \in 1..Len(t) : t[i] = e /\ \A j \in 1..(i - 1) : t[j] # e
    ELSE 0

(* C21: every managed OU below the root is an OU of the directory; a       *)
(* registration request follows the directory's create request when there  *)
(* is one, and the directory's delete request follows a deregistration     *)
(* that was answered ok.                                                   *)
C21_ManagedHasDirectoryOU ==
    /\ \A i \in 2..Len(env.managedOUs) : env.managedOUs[i] \in env.orgOUs
    /\ (op.name = "create_organizational_unit"
          /\ Has(trace, ManageOU[1], ManageOU[2], ManageOU[3])) =>
           /\ First(trace, CreateOU) # 0
           /\ First(trace, CreateOU) < First(trace, ManageOU)
    /\ (op.name = "delete_organizational_unit"
          /\ Has(trace, DeleteOU[1], DeleteOU[2], DeleteOU[3])) =>
           /\ First(trace, Deregister) # 0
           /\ First(trace, Deregister) < First(trace, DeleteOU)
           /\ ~Has(trace, "response", "not ok", Deregister[3])
           /\ ~Managed(env, op.arg)

C21_Witness ==
    /\ op.name = "delete_organizational_unit"
    /\ result.err = "ClientError"
    /\ Has(trace, DeleteOU[1], DeleteOU[2], DeleteOU[3])
    /\ "Dev" \in env.orgOUs
    /\ ~Managed(env, "Dev")

----------------------------------------------------------------------------
(* The gate among several callers.                                         *)

(* C22: a caller passes the gate having seen the landing zone deployed and *)
(* busy false, and passing changes nothing in the services and nothing of  *)
(* another caller: nothing records that somebody is past the gate.         *)
C22_GateIsGuard ==
    [][\A c \in Callers :
          (callers[c].pc = "idle" /\ callers'[c].pc = "body") =>
              /\ env' = env
              /\ \A d \in Callers \ {c} : callers'[d] = callers[d]
              /\ callers'[c].ct.is_deployed = "True"
              /\ Has(callers'[c].trace, "busy", "False", "evaluated")
              /\ ~Has(callers'[c].trace, "busy", "True", "evaluated")]_vars

(* Two callers are past the gate, in the method that creates an OU, at the *)
(* same time.                                                              *)
C22_Witness ==
    /\ callers[1].pc = "body"
    /\ callers[2].pc = "body"
    /\ Has(callers[1].trace, "method", "create_organizational_unit", "body")
    /\ Has(callers[2].trace, "method", "create_organizational_unit", "body")
    /\ env.orgOUs = {}

----------------------------------------------------------------------------
(* Responses that are not ok.                                              *)

(* C23 as stated: a call that got a response that is not ok ends with an   *)
(* exception, or at least returns False: it does not return a result as if *)
(* the service had answered.                                               *)
C23_FailuresSurfaced ==
    (/\ op.name \in {"drift_messages", "busy", "is_deployed",
                     "get_organizational_unit_by_name"}
     /\ HasKind(trace, "response")) =>
        (result.err # NoErr \/ result.ret = "False")

----------------------------------------------------------------------------
(* Policies by name.                                                       *)

PolicyCalled(t) ==
    \E i \in 1..Len(t) : t[i][2] \in {"attach_policy", "detach_policy"}

(* C24: attaching or detaching a policy by a name that no policy of the    *)
(* directory has issues no attach_policy or detach_policy call and leaves  *)
(* the attachments as they are; it raises NonExistentSCP unless the gate   *)
(* or the transport fails the lookup of the policy.                        *)
C24_NonExistentSCP ==
    [][(/\ Called
        /\ op'.name \in {"attach_service_control_policy", "detach_service_control_policy"}
        /\ op'.arg \notin env.policies) =>
           /\ ~PolicyCalled(trace')
           /\ env' = env
           /\ result'.err \in {"NonExistentSCP", "ControlTowerBusy", "ClientError"}
           /\ (/\ ~BusyNow(env)
               /\ SnapshotCurrent
               /\ ~HasKind(trace', "response")
               /\ result'.err # "ClientError") =>
                  result'.err = "NonExistentSCP"]_vars

C24_Witness ==
    /\ op.name = "detach_service_control_policy"
    /\ op.arg = suspended_ou_name
    /\ result.err = "NonExistentSCP"
    /\ ~PolicyCalled(trace)
    /\ env.attached[1] = {"FullAWSAccess"}

----------------------------------------------------------------------------
(* The status snapshot.                                                    *)

StatusReads ==
    {"status", "percentage_complete", "deploying_messages", "region_metadata_list"}

StatusRequested(t) == Has(t, "session.post", "getLandingZoneStatus", "_get_status")

(* A read of the snapshot through instance i, which has read before.       *)
LaterRead(i) ==
    /\ Called
    /\ op'.name \in StatusReads
    /\ op'.arg = i
    /\ callers[i].last # "unfetched"

----------------------------------------------------------------------------
(* More properties of the paginated result stream (SpecStream).            *)

(* The events of the step just taken by next().                            *)
Fetched == SubSeq(trace', Len(trace) + 1, Len(trace'))

(* C26: the stream does not retry.  A page whose fetch fails is requested  *)
(* once: the failed request is the last event of the stream but for the    *)
(* ValueError raised with the text of the response, no request before it   *)
(* carried its cursor, what was yielded before stays yielded, and every    *)
(* later next() ends the iteration without a request.                      *)
C26_NoRetry ==
    [][(stream.open /\ op'.name = "next") =>
           /\ IsPrefix(stream.yielded, stream'.yielded)
           /\ FetchFails =>
                  /\ result'.err = "ValueError"
                  /\ Count(Fetched, "response", "not ok", "_get_partial_response") = 1
                  /\ SubSeq(trace', Len(trace') - 2, Len(trace')) =
                         <<<<"session.post", stream.g.target, "_get_partial_response">>,
                           <<"response", "not ok", "_get_partial_response">>,
                           <<"ValueError", "response.text", "_get_partial_response">>>>
                  /\ LET c == Cursors(trace')
                     IN  \A k \in 1..(Len(c) - 1) : c[k] # c[Len(c)]
                  /\ stream'.yielded = stream.yielded
           /\ FetchFailed(trace) =>
                  /\ trace' = trace
                  /\ stream'.yielded = stream.yielded
                  /\ result' = [err |-> NoErr, ret |-> "StopIteration"]]_vars

C26_Witness ==
    /\ op.name = "next"
    /\ result = [err |-> NoErr, ret |-> "StopIteration"]
    /\ FetchFailed(trace)
    /\ stream.g.object_group
    /\ Len(env.pages) = 3
    /\ PageRequests(trace, stream.g.target) = 2
    /\ Len(stream.yielded) = MaxItems

(* C27 as the specification states it: without object_group the stream    *)
(* sends one request and yields one element, whatever cursor the response  *)
(* carries.                                                                *)
C27_OneBodyOnly ==
    (stream.open /\ ~stream.g.object_group) =>
        /\ PageRequests(trace, stream.g.target) <= 1
        /\ Len(stream.yielded) <= 1

(* C27: without object_group the stream yields the decoded body of every   *)
(* page, one element a request, and follows the cursor as with one: it     *)
(* stops at the first response without a cursor, after one request and one *)
(* element only if the first response has none.                            *)
C27_EveryBodyOnce ==
    (stream.open /\ ~stream.g.object_group) =>
        LET pages == ServerPages(env, stream.g.target)
            requests == PageRequests(trace, stream.g.target)
        IN  /\ requests <= Len(pages)
            /\ stream.yielded =
                   SubSeq(pages, 1, IF FetchFailed(trace) THEN requests - 1 ELSE requests)
            /\ (stream.g.state = "finished" /\ ~FetchFailed(trace)) =>
                   requests = Len(pages)
            /\ (stream.g.state = "suspended" /\ requests < Len(pages)) =>
                   pages[requests].next \notin {None, ""}

C27_Witness ==
    /\ stream.open
    /\ ~stream.g.object_group
    /\ stream.g.state = "finished"
    /\ ~FetchFailed(trace)
    /\ Len(env.pages) = 3
    /\ PageRequests(trace, stream.g.target) = 3
    /\ stream.yielded = env.pages

(* The cursor field of the response to the k-th page request of a trace.   *)
Answered(t, target, k) == ServerPage(env, target, Cursors(t)[k]).next

(* C28: the first page request carries the original body, which has no     *)
(* cursor; every later one carries the original body with the cursor of    *)
(* the response to the request just before it, which is not empty; and a   *)
(* stream that ended without a failed fetch ended at a response whose      *)
(* cursor is absent or empty, the first such.                              *)
C28_CursorFollowing ==
    stream.open =>
        LET requests == PageRequests(trace, stream.g.target)
            c == Cursors(trace)
        IN  /\ Len(c) = requests
            /\ requests > 0 => c[1] = None
            /\ \A k \in 2..requests :
                   /\ c[k] = Answered(trace, stream.g.target, k - 1)
                   /\ c[k] \notin {None, ""}
            /\ (requests > 0 /\ ~FetchFailed(trace)) => stream.g.token = c[requests]
            /\ (stream.g.state = "finished" /\ ~FetchFailed(trace)) =>
                   /\ requests > 0
                   /\ Answered(trace, stream.g.target, requests) \in {None, ""}

C28_Witness ==
    /\ stream.open
    /\ stream.g.state = "finished"
    /\ ~FetchFailed(trace)
    /\ Cursors(trace) = <<None, Cursor(2), Cursor(3)>>
    /\ env.pages[3].next = ""

RECURSIVE Elements(_, _)
(* The number of elements of the first k pages.                            *)
Elements(pages, k) ==
    IF k <= 0 THEN 0 ELSE Len(pages[k].items) + Elements(pages, k - 1)

ListTargets == {"listManagedAccounts", "listManagedOrganizationalUnits"}

ListRequests(t) ==
    Len(SelectSeq(t, LAMBDA e : e[1] = "session.post" /\ e[2] \in ListTargets))

(* A read of a property that returns a lazy sequence.                      *)
Obtained == op'.name \in {"accounts", "organizational_units"}

(* A page is requested only by a next() that has no element left to yield  *)
(* from the pages before it.                                               *)
PagesOnDemand ==
    /\ Obtained => ListRequests(trace') = 0
    /\ (stream'.open /\ stream'.g.object_group) =>
           LET pages == ServerPages(env', stream'.g.target)
               requests == PageRequests(trace', stream'.g.target)
           IN  /\ stream'.g.state = "created" => requests = 0
               /\ requests > PageRequests(trace, stream.g.target) =>
                      /\ op'.name = "next"
                      /\ Len(stream.yielded) = Elements(pages, requests - 1)
               /\ Len(stream'.yielded) >= Elements(pages, requests - 1)
               /\ (op'.name = "next" /\ stream.g.state = "created"
                   /\ result'.err \in {NoErr, "ValueError"}) => requests >= 1

(* C29 as the specification states it: obtaining the sequence issues no    *)
(* network call, and pages are requested on demand.                        *)
C29_NoCallUntilConsumed ==
    [][/\ Obtained => Len(NetworkCalls(trace')) = 0
       /\ PagesOnDemand]_vars

(* C29: obtaining the sequence issues no page request: the only network    *)
(* calls of reading accounts or organizational_units are those of the      *)
(* availability gate.  The first page is requested by the next() for the   *)
(* first element, and page i+1 by a next() called when every element of    *)
(* pages 1..i has been yielded.                                            *)
C29_LazyPages ==
    [][/\ Obtained =>
              \A i \in 1..Len(trace') :
                  trace'[i][1] \in NetworkKinds =>
                      trace'[i][3] \in {"_get_status", "get_changing_accounts"}
       /\ PagesOnDemand]_vars

C29_Witness ==
    /\ stream.open
    /\ stream.g.target = "listManagedOrganizationalUnits"
    /\ stream.g.state = "suspended"
    /\ PageRequests(trace, stream.g.target) = 1
    /\ Len(stream.yielded) = MaxItems
    /\ Len(ServerPages(env, stream.g.target)) > 1
    /\ HasKind(trace, "servicecatalog")

----------------------------------------------------------------------------
(* delete() after the move.                                                *)

(* The attach or the detach of a delete() that has moved the account       *)
(* raises.                                                                 *)
FailsAfterMove ==
    /\ account.pc \in {"attaching", "detaching"}
    /\ account'.pc = "idle"
    /\ result'.err # NoErr

(* C30: when the attach or the detach of delete() raises after the move,   *)
(* the account stays in the suspended OU and is not moved again, the       *)
(* attachments stay as they were before the failed step (what the attach   *)
(* that was issued attached included), and a failed attach is followed by  *)
(* no detach.                                                              *)
C30_NoRollback ==
    [][FailsAfterMove =>
           /\ op'.name = "delete"
           /\ env'.managedAccounts = env.managedAccounts
           /\ env'.managedAccounts[account.data.AccountId].ParentOrganizationalUnitId
                  = account.suspended_ou
           /\ env'.attached = env.attached
           /\ env'.provisioned = env.provisioned
           /\ Count(trace', "organizations", "move_account", "delete") = 1
           /\ IsPrefix(Effects(trace'), DeleteEffects)
           /\ Len(Effects(trace')) >= 2
           /\ account.pc = "attaching" =>
                  ~Has(trace', "organizations", "detach_policy", "FullAWSAccess")
           /\ account.pc = "detaching" =>
                  Effects(trace')[3] = DeleteEffects[3]]_vars

C30_Witness ==
    /\ op.name = "delete"
    /\ account.pc = "idle"
    /\ result.err = "ControlTowerBusy"
    /\ Effects(trace) = SubSeq(DeleteEffects, 1, 2)
    /\ env.managedAccounts[1].ParentOrganizationalUnitId = suspended_ou_name
    /\ env.attached[1] = {"FullAWSAccess"}

C30_WitnessDetach ==
    /\ op.name = "delete"
    /\ account.pc = "idle"
    /\ result.err = "ControlTowerBusy"
    /\ Effects(trace) = SubSeq(DeleteEffects, 1, 3)
    /\ env.managedAccounts[1].ParentOrganizationalUnitId = suspended_ou_name
    /\ env.attached[1] = {"FullAWSAccess", suspended_ou_name}

----------------------------------------------------------------------------
(* Tier 3 of an account object.                                            *)

HasLastRecordId(tier) == tier.resolved = "record" /\ tier.LastRecordId # None

(* C31: a read of an SSO property asks for the workflow record only when   *)
(* the catalog record, resolved by then, holds a last-record-id; with an   *)
(* empty catalog record or one without last-record-id it issues no         *)
(* describe_record call and is None; and a read with tier 3 unresolved     *)
(* resolves tier 2 first: the search precedes the describe.                *)
C31_Tier3NeedsLastRecordId ==
    [][(Called /\ op'.name = "sso_user_email") =>
          /\ Has(trace', Describe[1], Describe[2], Describe[3]) =>
                 /\ HasLastRecordId(account'.service_catalog_data)
                 /\ ~Resolved(account.record_data)
                 /\ \/ Resolved(account.service_catalog_data)
                    \/ /\ First(trace', Search) > 0
                       /\ First(trace', Search) < First(trace', Describe)
          /\ (Resolved(account'.service_catalog_data)
              /\ ~HasLastRecordId(account'.service_catalog_data)) =>
                 /\ ~Has(trace', Describe[1], Describe[2], Describe[3])
                 /\ result' = [err |-> NoErr, ret |-> None]
                 /\ account'.record_data = empty_record
          /\ (~Resolved(account.record_data) /\ result'.err = NoErr) =>
                 /\ Resolved(account'.service_catalog_data)
                 /\ Resolved(account'.record_data)
          /\ (~Resolved(account.record_data) /\ ~Resolved(account.service_catalog_data)) =>
                 trace'[1] = Search]_vars

C31_Witness ==
    /\ op.name = "sso_user_email"
    /\ account.service_catalog_data.resolved = "record"
    /\ account.service_catalog_data.LastRecordId = None
    /\ account.record_data = empty_record
    /\ result = [err |-> NoErr, ret |-> None]
    /\ trace = <<Search>>

----------------------------------------------------------------------------
(* The creation of an organizational unit (SpecDirectory).                 *)

(* C32: create_organizational_unit creates the OU in the directory, then   *)
(* registers it, then sleeps the settling time, then returns True.  It     *)
(* sleeps only after a registration that succeeded and registers only      *)
(* after a create that succeeded: a create the directory fails returns     *)
(* False with no registration request.                                     *)
C32_CreationOrdered ==
    [][(Called /\ op'.name = "create_organizational_unit") =>
          /\ Count(trace', CreateOU[1], CreateOU[2], CreateOU[3]) <= 1
          /\ Count(trace', ManageOU[1], ManageOU[2], ManageOU[3]) <= 1
          /\ Count(trace', Settle[1], Settle[2], Settle[3]) <= 1
          /\ Has(trace', Settle[1], Settle[2], Settle[3]) =>
                 /\ First(trace', ManageOU) > 0
                 /\ First(trace', Settle) = First(trace', ManageOU) + 1
                 /\ First(trace', Settle) = Len(trace')
                 /\ result'.err = NoErr
                 /\ result'.ret = "True"
                 /\ Managed(env', op'.arg)
          /\ (result'.err = NoErr /\ result'.ret = "True") => Has(trace', Settle[1], Settle[2], Settle[3])
          /\ Has(trace', ManageOU[1], ManageOU[2], ManageOU[3]) =>
                 /\ First(trace', CreateOU) > 0
                 /\ First(trace', CreateOU) < First(trace', ManageOU)
                 /\ op'.arg \notin env.orgOUs
                 /\ op'.arg \in env'.orgOUs
          /\ (Has(trace', CreateOU[1], CreateOU[2], CreateOU[3])
              /\ env'.orgOUs = env.orgOUs) =>
                 /\ ~Has(trace', ManageOU[1], ManageOU[2], ManageOU[3])
                 /\ ~Has(trace', Settle[1], Settle[2], Settle[3])
                 /\ result'.err = NoErr
                 /\ result'.ret = "False"
                 /\ env' = env]_vars

C32_Witness ==
    /\ op.name = "create_organizational_unit"
    /\ result.err = NoErr
    /\ result.ret = "True"
    /\ First(trace, CreateOU) > 0
    /\ First(trace, ManageOU) > First(trace, CreateOU)
    /\ trace[Len(trace)] = Settle
    /\ Managed(env, op.arg)

C32_WitnessFailedCreate ==
    /\ op.name = "create_organizational_unit"
    /\ result.err = NoErr
    /\ result.ret = "False"
    /\ Has(trace, CreateOU[1], CreateOU[2], CreateOU[3])
    /\ ~Has(trace, ManageOU[1], ManageOU[2], ManageOU[3])
    /\ op.arg \notin env.orgOUs

----------------------------------------------------------------------------
(* The gate inside a gated method (SpecCallers).                           *)

(* C33 as the specification states it: a create_organizational_unit that   *)
(* has created the OU in the directory does not raise ControlTowerBusy, so *)
(* no caller ends with its OU in the directory and not registered because  *)
(* the control plane turned busy.                                          *)
C33_GateNotRaisedAgain ==
    [][\A c \in Callers :
          (callers[c].pc = "registering" /\ callers'[c].pc = "idle") =>
              ~(/\ callers'[c].result.err = "ControlTowerBusy"
                /\ OUOf(c) \in env'.orgOUs
                /\ ~Managed(env', OUOf(c)))]_vars

----------------------------------------------------------------------------
(* The policies of a deleted account.                                      *)

(* C34 as the specification states it: delete() detaches FullAWSAccess     *)
(* only if its attach succeeded, so that the account is not left without   *)
(* FullAWSAccess and without the suspended OU's policy.                    *)
C34_DetachOnlyAfterAttach ==
    [][(Called /\ op'.name = "delete" /\ account.pc = "detaching") =>
           /\ suspended_ou_name \in env.attached[account.data.AccountId]
           /\ env'.attached[account.data.AccountId] # {}]_vars

----------------------------------------------------------------------------
(* C36: a read of core_accounts on an instance that holds no list issues   *)
(* describeCoreService requests for a prefix of PRIMARY, LOGGING,          *)
(* SECURITY, in that order; it returns and memoises the three accounts iff *)
(* all three requests were answered, and raises ServiceCallFailed on the   *)
(* first request that fails, holding no list afterwards.  A read on an     *)
(* instance that holds the list issues no request and returns the list.    *)
RECURSIVE Labels(_)
Labels(t) ==
    IF t = <<>> THEN <<>>
    ELSE (IF Head(t)[1] = "AccountType" THEN <<Head(t)[2]>> ELSE <<>>) \o Labels(Tail(t))

CoreRequests(t) == Count(t, "session.post", "describeCoreService", "core_accounts")

C36_CoreAccountsAllOrNothing ==
    [][(Called /\ op'.name = "core_accounts") =>
           /\ CoreRequests(trace') = Len(Labels(trace'))
           /\ IsPrefix(Labels(trace'), core_account_types)
           /\ ct.core_accounts # <<>> =>
                  /\ CoreRequests(trace') = 0
                  /\ ct'.core_accounts = ct.core_accounts
                  /\ result'.err = NoErr => result'.ret = core_account_types
           /\ ct.core_accounts = <<>> =>
                  /\ result'.err = NoErr =>
                         /\ Labels(trace') = core_account_types
                         /\ result'.ret = core_account_types
                         /\ ct'.core_accounts = core_account_types
                  /\ result'.err # NoErr => ct'.core_accounts = <<>>
                  /\ Has(trace', "response", "not ok", "core_accounts") <=>
                         (result'.err = "ServiceCallFailed" /\ CoreRequests(trace') > 0)
           /\ ct'.core_accounts \in {<<>>, core_account_types}]_vars

(* A later read on the instance that holds the list.                       *)
C36_Witness ==
    /\ op.name = "core_accounts"
    /\ result.err = NoErr
    /\ CoreRequests(trace) = 0
    /\ ct.core_accounts = core_account_types

(* The request for the SECURITY account failed: nothing is held.           *)
C36_WitnessFailed ==
    /\ op.name = "core_accounts"
    /\ result.err = "ServiceCallFailed"
    /\ Labels(trace) = core_account_types
    /\ ct.core_accounts = <<>>

----------------------------------------------------------------------------
(* C37: a lookup that returns has requested the pages of the listing in    *)
(* order from the first: up to the page that holds the first element with  *)
(* the name and none after it when there is one, which it returns; every   *)
(* page, and then it returns None, when there is none.                     *)
PageOf(pos) == ((pos - 1) \div MaxItems) + 1

PagesRequested(t) ==
    Count(t, "session.post", "listManagedOrganizationalUnits", "_get_partial_response")

C37_FirstMatchStops ==
    [][(/\ Called
        /\ op'.name = "get_organizational_unit_by_name"
        /\ result'.err = NoErr) =>
           /\ PagesRequested(trace') = Len(Cursors(trace'))
           /\ \A k \in 1..Len(Cursors(trace')) :
                  Cursors(trace')[k] = IF k = 1 THEN None ELSE Cursor(k)
           /\ IF First(env.managedOUs, op'.arg) > 0
              THEN /\ result'.ret = op'.arg
                   /\ PagesRequested(trace') = PageOf(First(env.managedOUs, op'.arg))
              ELSE /\ result'.ret = None
                   /\ PagesRequested(trace') = PageOf(Len(env.managedOUs))]_vars

(* The name is on the first of two pages: the second is not requested.     *)
C37_Witness ==
    /\ op = Call("get_organizational_unit_by_name", "Suspended")
    /\ result.err = NoErr
    /\ result.ret = "Suspended"
    /\ Len(env.managedOUs) > MaxItems
    /\ PagesRequested(trace) = 1

(* No managed OU has the name: both pages were requested.                  *)
C37_WitnessNone ==
    /\ op = Call("get_organizational_unit_by_name", "Sandbox")
    /\ result.err = NoErr
    /\ result.ret = None
    /\ PagesRequested(trace) = 2

----------------------------------------------------------------------------
(* C38: a status fetch that failed is not memoised: an evaluation of busy  *)
(* on an instance whose last status fetch was not answered issues the      *)
(* getLandingZoneStatus request again, and so reports an IN_PROGRESS       *)
(* landing zone as busy.                                                   *)
FailedFetchHeld ==
    /\ lru_lookup(cache, ct.id) # 0
    /\ cache[lru_lookup(cache, ct.id)][2] = None

C38_FailedFetchNotMemoised ==
    [][(Called /\ op'.name = "busy" /\ FailedFetchHeld) =>
           /\ Has(trace', "session.post", "getLandingZoneStatus", "_get_status")
           /\ (result'.err = NoErr /\ env.lz = "IN_PROGRESS") =>
                  result'.ret = "True"]_vars

----------------------------------------------------------------------------
(* C39: delete_organizational_unit of a name that is not a managed OU      *)
(* returns False having requested neither a deregistration nor a deletion; *)
(* a deregistration that is not answered ok makes it return False with no  *)
(* request to the directory and the services as they were; and a request   *)
(* to delete the directory's OU follows the one deregistration of the      *)
(* call, which was answered ok and has ended the OU's registration.        *)
C39_DeregisterBeforeDelete ==
    [][(Called /\ op'.name = "delete_organizational_unit") =>
           /\ ~Managed(env, op'.arg) =>
                  /\ result'.err = NoErr => result'.ret = "False"
                  /\ ~Has(trace', Deregister[1], Deregister[2], Deregister[3])
                  /\ ~Has(trace', DeleteOU[1], DeleteOU[2], DeleteOU[3])
                  /\ env' = env
           /\ Has(trace', "response", "not ok", Deregister[3]) =>
                  /\ result'.err = NoErr
                  /\ result'.ret = "False"
                  /\ ~Has(trace', DeleteOU[1], DeleteOU[2], DeleteOU[3])
                  /\ env' = env
           /\ Has(trace', DeleteOU[1], DeleteOU[2], DeleteOU[3]) =>
                  /\ Count(trace', Deregister[1], Deregister[2], Deregister[3]) = 1
                  /\ First(trace', Deregister) < First(trace', DeleteOU)
                  /\ Managed(env, op'.arg)
                  /\ ~Managed(env', op'.arg)
           /\ env'.orgOUs # env.orgOUs =>
                  /\ result'.err = NoErr
                  /\ result'.ret = "True"
                  /\ Has(trace', DeleteOU[1], DeleteOU[2], DeleteOU[3])]_vars

(* The deregistration was not answered ok: the OU is still managed and     *)
(* still in the directory.                                                 *)
C39_Witness ==
    /\ op.name = "delete_organizational_unit"
    /\ result.err = NoErr
    /\ result.ret = "False"
    /\ Has(trace, "response", "not ok", Deregister[3])
    /\ Managed(env, op.arg)
    /\ op.arg \in env.orgOUs

(* The name is an OU of the directory that is not managed.                 *)
C39_WitnessNotManaged ==
    /\ op.name = "delete_organizational_unit"
    /\ result.err = NoErr
    /\ result.ret = "False"
    /\ ~Managed(env, op.arg)
    /\ op.arg \in env.orgOUs
    /\ ~Has(trace, Deregister[1], Deregister[2], Deregister[3])

(* The OU was deregistered and deleted.                                    *)
C39_WitnessDeleted ==
    /\ op.name = "delete_organizational_unit"
    /\ result.err = NoErr
    /\ result.ret = "True"
    /\ First(trace, Deregister) > 0
    /\ First(trace, Deregister) < First(trace, DeleteOU)
    /\ op.arg \notin env.orgOUs

----------------------------------------------------------------------------
(* C40: the status snapshots of the instances of a process are             *)
(* independent, however many instances there are: a read through one       *)
(* instance leaves the snapshot every other instance holds in place and as *)
(* it was, so that the other instance's next read needs no request and     *)
(* reports what it reported before.                                        *)
Holds(c, i) == lru_lookup(c, i) # 0

Held(c, i) == c[lru_lookup(c, i)][2]

C40_SnapshotsIndependent ==
    [][\A i \in Instances, j \in Instances :
          (/\ Called
           /\ i # j
           /\ op'.name \in StatusReads
           /\ op'.arg = j
           /\ Holds(cache, i)) =>
              /\ Holds(cache', i)
              /\ Held(cache', i) = Held(cache, i)]_vars

====
